---------------------------- MODULE Spec2Model ----------------------------
(***************************************************************************)
(* A model of the agent.md bridge: the manifest parser and schema builder  *)
(* of the extension's service worker (src/background.js), its JSON-RPC     *)
(* dispatcher and action invoker, and the sample MCP client's request      *)
(* bookkeeping (src/agent.js).                                             *)
(*                                                                         *)
(* JavaScript strings are TLA+ strings; the string functions the code      *)
(* uses (startsWith, slice, trim, toLowerCase, split, the parameter-line   *)
(* regular expression, JSON.stringify and JSON.parse) are operators that   *)
(* work on the characters.                                                 *)
(***************************************************************************)
EXTENDS Integers, Sequences, FiniteSets, TLC

(***************************************************************************)
(* State                                                                   *)
(***************************************************************************)
\* parseAgentMd (src/background.js), one call of it
VARIABLES
    markdown,          \* parseAgentMd's argument
    lines,             \* markdown.split('\n')
    i,                 \* the loop index (0-based)
    contract,          \* the contract being built
    section,           \* Null or the current "## " section's name
    currentAction,     \* Null or the action in progress
    inActionsSection,  \* section === 'actions'
    returned           \* Null until parseAgentMd returns, then its result

parseVars ==
    <<markdown, lines, i, contract, section, currentAction, inActionsSection,
      returned>>

\* buildInputSchema (src/background.js), one call of it
VARIABLES
    action,            \* buildInputSchema's argument
    schema             \* Null until buildInputSchema returns, then its result

schemaVars == <<action, schema>>

\* the bridge: the service worker's globals, its handlers in flight and the
\* browser around it (src/background.js)
VARIABLES
    nativePort,        \* NoPort (null) or the port of the current connection
    connects,          \* the calls of connectNativeHost so far
    reconnectTimers,   \* the setTimeout(connectNativeHost, 2000) not yet fired
    contractCache,     \* origin -> parsed contract
    activeTab,         \* Null or the tab chrome.tabs.query finds active
    handlers,          \* the calls of handleMCPMessage, in order of arrival
    outbox             \* the messages posted to native ports, in order

bridgeVars ==
    <<nativePort, connects, reconnectTimers, contractCache, activeTab,
      handlers, outbox>>

\* one MCPClient, its server's output and its requests' promises (src/agent.js)
VARIABLES
    nextId,            \* this.nextId
    pendingRequests,   \* the keys of this.pendingRequests
    promises,          \* promises[id]: the promise request() returned for id
    timers,            \* the ids whose setTimeout of request() has not fired
    stdin,             \* the lines written to the server's stdin
    lastLine,          \* Null or the line the 'line' handler ran on last
    process            \* this.process: "none", "running", "exited" or "killed"

clientVars == <<nextId, pendingRequests, promises, timers, stdin, lastLine, process>>

\* the native messaging host and the two streams it reads (src/unnamed/part_000)
VARIABLES
    clientStream,      \* the text the MCP client writes to the host, in all
    clientRead,        \* how much of it the 'data' listener has been given
    extStream,         \* the bytes the extension's side writes to the host, in all
    extRead,           \* how much of them the 'readable' listener has read
    inputBuffer,       \* inputBuffer
    headerBuf,         \* headerBuf of readMessage
    stdout             \* the writes to process.stdout, in order

hostVars ==
    <<clientStream, clientRead, extStream, extRead, inputBuffer, headerBuf, stdout>>

vars == <<parseVars, schemaVars, bridgeVars, clientVars, hostVars>>

\* the variables each component leaves alone
notParseVars == <<schemaVars, bridgeVars, clientVars, hostVars>>

notSchemaVars == <<parseVars, bridgeVars, clientVars, hostVars>>

notBridgeVars == <<parseVars, schemaVars, clientVars, hostVars>>

notClientVars == <<parseVars, schemaVars, bridgeVars, hostVars>>

notHostVars == <<parseVars, schemaVars, bridgeVars, clientVars>>

(***************************************************************************)
(* JavaScript values that are not strings                                  *)
(***************************************************************************)
\* null / undefined: a record no other value of the model is equal to
Null == [null |-> TRUE]

(***************************************************************************)
(* String functions                                                        *)
(***************************************************************************)
\* s.substring(a - 1, b): the characters a..b of s, cut to the string's ends
substring(s, a, b) ==
    IF a > b \/ a > Len(s) \/ b < 1 THEN ""
    ELSE SubSeq(s, IF a < 1 THEN 1 ELSE a, IF b > Len(s) THEN Len(s) ELSE b)

\* s.charAt(n - 1): the n-th character as a one-character string, "" outside s
Char(s, n) == substring(s, n, n)

\* s.startsWith(p)
startsWith(s, p) == Len(s) >= Len(p) /\ SubSeq(s, 1, Len(p)) = p

\* s.slice(n)
slice(s, n) == substring(s, n + 1, Len(s))

\* the characters String.prototype.trim removes and the regex class \s matches
IsSpace(c) == c \in {" ", "\t", "\n", "\r", "\f"}

\* the regex class \w
WordChars ==
    {"a", "b", "c", "d", "e", "f", "g", "h", "i", "j", "k", "l", "m",
     "n", "o", "p", "q", "r", "s", "t", "u", "v", "w", "x", "y", "z",
     "A", "B", "C", "D", "E", "F", "G", "H", "I", "J", "K", "L", "M",
     "N", "O", "P", "Q", "R", "S", "T", "U", "V", "W", "X", "Y", "Z",
     "0", "1", "2", "3", "4", "5", "6", "7", "8", "9", "_"}

IsWordChar(c) == c \in WordChars

RECURSIVE trimStart(_)
trimStart(s) ==
    IF Len(s) > 0 /\ IsSpace(Char(s, 1)) THEN trimStart(Tail(s)) ELSE s

RECURSIVE trimEnd(_)
trimEnd(s) ==
    IF Len(s) > 0 /\ IsSpace(Char(s, Len(s)))
    THEN trimEnd(SubSeq(s, 1, Len(s) - 1))
    ELSE s

\* s.trim()
trim(s) == trimEnd(trimStart(s))

\* the lower-case letter of each upper-case letter
LowerOf ==
    [c \in {"A", "B", "C", "D", "E", "F", "G", "H", "I", "J", "K", "L", "M",
          "N", "O", "P", "Q", "R", "S", "T", "U", "V", "W", "X", "Y", "Z"} |->
        CASE c = "A" -> "a"
          [] c = "B" -> "b"
          [] c = "C" -> "c"
          [] c = "D" -> "d"
          [] c = "E" -> "e"
          [] c = "F" -> "f"
          [] c = "G" -> "g"
          [] c = "H" -> "h"
          [] c = "I" -> "i"
          [] c = "J" -> "j"
          [] c = "K" -> "k"
          [] c = "L" -> "l"
          [] c = "M" -> "m"
          [] c = "N" -> "n"
          [] c = "O" -> "o"
          [] c = "P" -> "p"
          [] c = "Q" -> "q"
          [] c = "R" -> "r"
          [] c = "S" -> "s"
          [] c = "T" -> "t"
          [] c = "U" -> "u"
          [] c = "V" -> "v"
          [] c = "W" -> "w"
          [] c = "X" -> "x"
          [] c = "Y" -> "y"
          [] c = "Z" -> "z"]

lowerChar(c) == IF c \in DOMAIN LowerOf THEN LowerOf[c] ELSE c

RECURSIVE toLowerCase(_)
toLowerCase(s) ==
    IF Len(s) = 0 THEN "" ELSE lowerChar(Char(s, 1)) \o toLowerCase(Tail(s))

\* the position of the first "\n" of s at or after position k, 0 when none
RECURSIVE NextNewline(_, _)
NextNewline(s, k) ==
    IF k > Len(s) THEN 0
    ELSE IF Char(s, k) = "\n" THEN k
    ELSE NextNewline(s, k + 1)

\* s.split('\n')
RECURSIVE split(_)
split(s) ==
    LET n == NextNewline(s, 1) IN
    IF n = 0 THEN <<s>>
    ELSE <<SubSeq(s, 1, n - 1)>> \o split(SubSeq(s, n + 1, Len(s)))


\* ls.join('\n')
RECURSIVE Join(_)
Join(ls) ==
    IF Len(ls) = 0 THEN ""
    ELSE IF Len(ls) = 1 THEN ls[1]
    ELSE ls[1] \o "\n" \o Join(Tail(ls))

(***************************************************************************)
(* The parameter-line regular expression of parseAgentMd                   *)
(***************************************************************************)
\* what the regex "." matches: any character but a line terminator
IsDot(c) == Len(c) = 1 /\ c \notin {"\n", "\r"}

\* the last position of the run of \w characters of s that starts at k (k - 1: none)
RECURSIVE WordEnd(_, _)
WordEnd(s, k) ==
    IF k <= Len(s) /\ IsWordChar(Char(s, k)) THEN WordEnd(s, k + 1) ELSE k - 1

\* the first position of s at or after k that holds no \s character
RECURSIVE SkipSpaces(_, _)
SkipSpaces(s, k) ==
    IF k <= Len(s) /\ IsSpace(Char(s, k)) THEN SkipSpaces(s, k + 1) ELSE k

\* the last position of the run of "." characters of s that starts at k
RECURSIVE DotEnd(_, _)
DotEnd(s, k) ==
    IF k <= Len(s) /\ IsDot(Char(s, k)) THEN DotEnd(s, k + 1) ELSE k - 1

\* ",\s*(required|optional)\):" matched at position k of s: the word and the
\* position of the closing ":", or Null
FlagAt(s, k) ==
    LET p == SkipSpaces(s, k + 1)
        w == substring(s, p, p + 7)
    IN  IF Char(s, k) = "," /\ w \in {"required", "optional"}
           /\ substring(s, p + 8, p + 9) = "):"
        THEN [word |-> w, end |-> p + 9]
        ELSE Null

\* the match of a regex that has lost its (required|optional) group,
\* /^- (\w+) \((.+?)\):\s*(.*)/, every parameter taken as optional
paramMatch_noFlag(s) ==
    LET e == WordEnd(s, 3)
        t0 == e + 3
        ends == {k \in (t0 + 1)..Len(s) :
                    /\ substring(s, k, k + 1) = "):"
                    /\ \A j \in t0..(k - 1) : IsDot(Char(s, j))}
    IN  IF startsWith(s, "- ") /\ e >= 3 /\ substring(s, e + 1, e + 2) = " ("
           /\ ends # {}
        THEN LET k == CHOOSE x \in ends : \A y \in ends : x <= y
                 d == SkipSpaces(s, k + 2)
             IN  [m1 |-> substring(s, 3, e),
                  m2 |-> substring(s, t0, k - 1),
                  m3 |-> "optional",
                  m4 |-> substring(s, d, DotEnd(s, d))]
        ELSE Null

\* stripped.match(/^- (\w+) \((.+?),\s*(required|optional)\):\s*(.*)/): the four
\* groups, or Null. (.+?) is lazy: the first "," that the rest matches after ends it.
paramMatch(s) ==
    LET e == WordEnd(s, 3)
        t0 == e + 3
        ends == {k \in (t0 + 1)..Len(s) :
                    /\ FlagAt(s, k) # Null
                    /\ \A j \in t0..(k - 1) : IsDot(Char(s, j))}
    IN  IF startsWith(s, "- ") /\ e >= 3 /\ substring(s, e + 1, e + 2) = " ("
           /\ ends # {}
        THEN LET k == CHOOSE x \in ends : \A y \in ends : x <= y
                 f == FlagAt(s, k)
                 d == SkipSpaces(s, f.end + 1)
             IN  [m1 |-> substring(s, 3, e),
                  m2 |-> substring(s, t0, k - 1),
                  m3 |-> f.word,
                  m4 |-> substring(s, d, DotEnd(s, d))]
        ELSE Null

(***************************************************************************)
(* JSON values, JSON.stringify and JSON.parse                              *)
(***************************************************************************)
JString(s) == [t |-> "string", v |-> s]

JBoolean(b) == [t |-> "boolean", v |-> b]

JNull == [t |-> "null"]

\* a number: the model's JSON texts hold integers only
JNumber(n) == [t |-> "number", v |-> n]

\* an object: its members in insertion order, each [k |-> key, v |-> value]
JObject(members) == [t |-> "object", v |-> members]

Member(key, value) == [k |-> key, v |-> value]

\* obj[key], or Null (undefined) when obj has no such key
Get(obj, key) ==
    LET at == {n \in 1..Len(obj.v) : obj.v[n].k = key} IN
    IF at = {} THEN Null ELSE obj.v[CHOOSE n \in at : TRUE].v

\* the members after obj[key] = value: replaced in place, or appended
SetMember(members, key, value) ==
    IF \E n \in 1..Len(members) : members[n].k = key
    THEN [n \in 1..Len(members) |->
            IF members[n].k = key THEN Member(key, value) ELSE members[n]]
    ELSE Append(members, Member(key, value))

\* a stringify that writes every character as it is
EscapeChar_raw(c) == c

\* how JSON.stringify writes one character of a string
EscapeChar(c) ==
    IF c = "\"" THEN "\\\""
    ELSE IF c = "\\" THEN "\\\\"
    ELSE IF c = "\n" THEN "\\n"
    ELSE c

RECURSIVE Escape(_)
Escape(s) == IF Len(s) = 0 THEN "" ELSE EscapeChar(Char(s, 1)) \o Escape(Tail(s))

\* JSON.stringify of a string
Quote(s) == "\"" \o Escape(s) \o "\""

DigitChars == <<"0", "1", "2", "3", "4", "5", "6", "7", "8", "9">>

\* the decimal digits of n
RECURSIVE Digits(_)
Digits(n) ==
    IF n < 10 THEN DigitChars[n + 1]
    ELSE Digits(n \div 10) \o DigitChars[(n % 10) + 1]

RECURSIVE JSONstringify(_)
RECURSIVE StringifyMembers(_)
StringifyMembers(members) ==
    IF Len(members) = 0 THEN ""
    ELSE Quote(members[1].k) \o ":" \o JSONstringify(members[1].v)
         \o (IF Len(members) > 1 THEN "," ELSE "")
         \o StringifyMembers(Tail(members))

\* JSON.stringify(value)
JSONstringify(value) ==
    IF value.t = "string" THEN Quote(value.v)
    ELSE IF value.t = "boolean" THEN (IF value.v THEN "true" ELSE "false")
    ELSE IF value.t = "null" THEN "null"
    ELSE IF value.t = "number"
    THEN (IF value.v < 0 THEN "-" \o Digits(-value.v) ELSE Digits(value.v))
    ELSE "{" \o StringifyMembers(value.v) \o "}"

\* what JSON.parse throws
SyntaxError == [t |-> "SyntaxError"]

\* the result of a parse step: a value and the position after it, or a failure
Parsed(value, next) == [ok |-> TRUE, v |-> value, next |-> next]

ParseFailed == [ok |-> FALSE]

\* JSON whitespace
RECURSIVE SkipWs(_, _)
SkipWs(s, k) ==
    IF k <= Len(s) /\ Char(s, k) \in {" ", "\t", "\n", "\r"}
    THEN SkipWs(s, k + 1)
    ELSE k

\* the characters of a string literal from position k on (after the opening
\* quote), acc: the text read so far
RECURSIVE ParseChars(_, _, _)
ParseChars(s, k, acc) ==
    IF k > Len(s) THEN ParseFailed
    ELSE IF Char(s, k) = "\"" THEN Parsed(acc, k + 1)
    ELSE IF Char(s, k) = "\\"
    THEN IF Char(s, k + 1) \in {"\"", "\\", "/"}
         THEN ParseChars(s, k + 2, acc \o Char(s, k + 1))
         ELSE IF Char(s, k + 1) = "n" THEN ParseChars(s, k + 2, acc \o "\n")
         ELSE IF Char(s, k + 1) = "t" THEN ParseChars(s, k + 2, acc \o "\t")
         ELSE IF Char(s, k + 1) = "r" THEN ParseChars(s, k + 2, acc \o "\r")
         ELSE ParseFailed
    ELSE IF Char(s, k) \in {"\n", "\r", "\t"} THEN ParseFailed
    ELSE ParseChars(s, k + 1, acc \o Char(s, k))

IsDigit(c) == \E d \in 1..10 : DigitChars[d] = c

DigitValue(c) == (CHOOSE d \in 1..10 : DigitChars[d] = c) - 1

\* the digits of a number from position k on, acc: the value read so far
RECURSIVE ParseDigits(_, _, _)
ParseDigits(s, k, acc) ==
    IF k <= Len(s) /\ IsDigit(Char(s, k))
    THEN ParseDigits(s, k + 1, 10 * acc + DigitValue(Char(s, k)))
    ELSE Parsed(JNumber(acc), k)

RECURSIVE ParseValue(_, _)
RECURSIVE ParseMembers(_, _, _)
\* the members of an object from position k on (after "{" or ","), acc: the
\* members read so far
ParseMembers(s, k, acc) ==
    LET a == SkipWs(s, k) IN
    IF Char(s, a) # "\"" THEN ParseFailed
    ELSE LET key == ParseChars(s, a + 1, "") IN
         IF ~key.ok THEN ParseFailed
         ELSE LET c == SkipWs(s, key.next) IN
              IF Char(s, c) # ":" THEN ParseFailed
              ELSE LET val == ParseValue(s, c + 1) IN
                   IF ~val.ok THEN ParseFailed
                   ELSE LET d == SkipWs(s, val.next)
                            members == SetMember(acc, key.v, val.v)
                        IN  IF Char(s, d) = "," THEN ParseMembers(s, d + 1, members)
                            ELSE IF Char(s, d) = "}"
                            THEN Parsed(JObject(members), d + 1)
                            ELSE ParseFailed

\* the number of s that starts with the digit at position k
ParseNumber(s, k) ==
    IF Char(s, k) = "0"
    THEN IF IsDigit(Char(s, k + 1)) THEN ParseFailed ELSE Parsed(JNumber(0), k + 1)
    ELSE IF IsDigit(Char(s, k)) THEN ParseDigits(s, k, 0)
    ELSE ParseFailed

\* the JSON value of s that starts at position k (after whitespace)
ParseValue(s, k) ==
    LET a == SkipWs(s, k) IN
    IF Char(s, a) = "\""
    THEN LET str == ParseChars(s, a + 1, "") IN
         IF str.ok THEN Parsed(JString(str.v), str.next) ELSE ParseFailed
    ELSE IF substring(s, a, a + 3) = "true" THEN Parsed(JBoolean(TRUE), a + 4)
    ELSE IF substring(s, a, a + 4) = "false" THEN Parsed(JBoolean(FALSE), a + 5)
    ELSE IF substring(s, a, a + 3) = "null" THEN Parsed(JNull, a + 4)
    ELSE IF IsDigit(Char(s, a)) THEN ParseNumber(s, a)
    ELSE IF Char(s, a) = "-"
    THEN LET n == ParseNumber(s, a + 1) IN
         IF n.ok THEN Parsed(JNumber(-n.v.v), n.next) ELSE ParseFailed
    ELSE IF Char(s, a) = "{"
    THEN IF Char(s, SkipWs(s, a + 1)) = "}"
         THEN Parsed(JObject(<<>>), SkipWs(s, a + 1) + 1)
         ELSE ParseMembers(s, a + 1, <<>>)
    ELSE ParseFailed

\* JSON.parse(text): the value, or SyntaxError when it throws
JSONparse(text) ==
    LET r == ParseValue(text, 1) IN
    IF r.ok /\ SkipWs(text, r.next) > Len(text) THEN r.v ELSE SyntaxError


(***************************************************************************)
(* parseAgentMd (src/background.js)                                        *)
(***************************************************************************)
\* the object literal {}: a map with no keys
EmptyObject == [k \in {} |-> ""]

\* a set that keeps the value of a key that is already there
SetKey_ifAbsent(obj, key, value) ==
    [k \in DOMAIN obj \cup {key} |-> IF k \in DOMAIN obj THEN obj[k] ELSE value]

\* obj[key] = value on a map of strings
SetKey(obj, key, value) ==
    [k \in DOMAIN obj \cup {key} |-> IF k = key THEN value ELSE obj[k]]

\* { appName: '', description: '', auth: {}, actions: [] }
EmptyContract ==
    [appName |-> "", description |-> "", auth |-> EmptyObject, actions |-> <<>>]

\* the locals of parseAgentMd before its loop
InitialLocals ==
    [contract |-> EmptyContract, section |-> Null, currentAction |-> Null,
     inActionsSection |-> FALSE]

\* the action a "### " heading starts
NewAction(name) ==
    [name |-> name, description |-> "", params |-> <<>>, returns |-> "",
     example |-> ""]

\* the text of a property line after its key
PropertyValue(stripped, key) == trim(slice(stripped, Len(key)))

\* the '- params: none' test
IsParamsNone(stripped) ==
    startsWith(stripped, "- params:") /\ stripped = "- params: none"

\* the param object pushed for a matching parameter line
ParamOf(m) ==
    [name |-> m.m1, type |-> trim(m.m2), required |-> (m.m3 = "required"),
     description |-> trim(m.m4)]

\* "Parse action properties": what one body line does to the action in progress
ActionProperty(act, stripped) ==
    IF startsWith(stripped, "- description:")
    THEN [act EXCEPT !.description = PropertyValue(stripped, "- description:")]
    ELSE IF startsWith(stripped, "- returns:")
    THEN [act EXCEPT !.returns = PropertyValue(stripped, "- returns:")]
    ELSE IF startsWith(stripped, "- example:")
    THEN [act EXCEPT !.example = PropertyValue(stripped, "- example:")]
    ELSE IF IsParamsNone(stripped)
    THEN [act EXCEPT !.params = <<>>]
    ELSE IF paramMatch(stripped) # Null
    THEN [act EXCEPT !.params = Append(@, ParamOf(paramMatch(stripped)))]
    ELSE act

\* "Auth section": what one line does to contract.auth
AuthProperty(auth, stripped) ==
    IF startsWith(stripped, "- type:")
    THEN SetKey(auth, "type", PropertyValue(stripped, "- type:"))
    ELSE IF startsWith(stripped, "- note:")
    THEN SetKey(auth, "note", PropertyValue(stripped, "- note:"))
    ELSE auth

\* the test without its "not yet set" half: every "# " line sets appName
IsAppNameLine_always(st, line) == startsWith(line, "# ")

\* line.startsWith('# ') && !contract.appName
IsAppNameLine(st, line) == startsWith(line, "# ") /\ st.contract.appName = ""

\* line.startsWith('> ') && !contract.description
IsDescriptionLine(st, line) ==
    startsWith(line, "> ") /\ st.contract.description = ""

\* a non-null value of `section`
SectionName(name) == [name |-> name]

\* what a "## " heading does to the action in progress
SectionHeadingAction(st) == Null

\* the "## " branch
SectionHeading(st, line) ==
    LET name == toLowerCase(trim(slice(line, 3))) IN
    [st EXCEPT !.section = SectionName(name),
               !.inActionsSection = (name = "actions"),
               !.currentAction = SectionHeadingAction(st)]

\* contract.actions after "if (currentAction) contract.actions.push(currentAction)"
Flush(st) ==
    IF st.currentAction # Null
    THEN Append(st.contract.actions, st.currentAction)
    ELSE st.contract.actions

\* the test without its section half: every "### " line starts an action
IsActionHeading_anywhere(st, line) == startsWith(line, "### ")

\* line.startsWith('### ') && inActionsSection
IsActionHeading(st, line) == startsWith(line, "### ") /\ st.inActionsSection

\* the "### " branch
ActionHeading(st, line) ==
    [st EXCEPT !.contract.actions = Flush(st),
               !.currentAction = NewAction(trim(slice(line, 4)))]

\* section === 'auth'
InAuthSection(st) == st.section = SectionName("auth")

\* one pass of the loop body over `line`
ParseLine(st, line) ==
    IF IsAppNameLine(st, line)
    THEN [st EXCEPT !.contract.appName = trim(slice(line, 2))]
    ELSE IF IsDescriptionLine(st, line)
    THEN [st EXCEPT !.contract.description = trim(slice(line, 2))]
    ELSE IF startsWith(line, "## ")
    THEN SectionHeading(st, line)
    ELSE IF IsActionHeading(st, line)
    THEN ActionHeading(st, line)
    ELSE IF st.currentAction # Null
    THEN [st EXCEPT !.currentAction = ActionProperty(@, trim(line))]
    ELSE IF InAuthSection(st)
    THEN [st EXCEPT !.contract.auth = AuthProperty(@, trim(line))]
    ELSE st

\* the locals after the loop has run over the lines ls[k..]
RECURSIVE ParseFrom(_, _, _)
ParseFrom(st, ls, k) ==
    IF k > Len(ls) THEN st ELSE ParseFrom(ParseLine(st, ls[k]), ls, k + 1)

\* a return value that has lost its actions
ParseResult_noActions(st) ==
    [appName |-> st.contract.appName, description |-> st.contract.description,
     auth |-> st.contract.auth]

\* the value parseAgentMd returns from the locals its loop ends with
ParseResult(st) == [st.contract EXCEPT !.actions = Flush(st)]

\* parseAgentMd(markdown)
parseAgentMd(text) == ParseResult(ParseFrom(InitialLocals, split(text), 1))

Locals ==
    [contract |-> contract, section |-> section,
     currentAction |-> currentAction, inActionsSection |-> inActionsSection]

\* one iteration of the for loop
ParseLoop ==
    /\ returned = Null
    /\ i < Len(lines)
    /\ LET st == ParseLine(Locals, lines[i + 1]) IN
        /\ contract' = st.contract
        /\ section' = st.section
        /\ currentAction' = st.currentAction
        /\ inActionsSection' = st.inActionsSection
    /\ i' = i + 1
    /\ UNCHANGED <<markdown, lines, returned>>
    /\ UNCHANGED notParseVars

\* the loop's exit, the last flush and the return
ParseReturn ==
    /\ returned = Null
    /\ i >= Len(lines)
    /\ contract' = ParseResult(Locals)
    /\ returned' = contract'
    /\ UNCHANGED <<markdown, lines, i, section, currentAction, inActionsSection>>
    /\ UNCHANGED notParseVars

(***************************************************************************)
(* buildInputSchema and mapType (src/background.js)                        *)
(***************************************************************************)
\* a mapping that passes the tag on as it is
mapType_same(type) == type

\* mapType(type)
mapType(type) ==
    IF type = "string" THEN "string"
    ELSE IF type = "number" \/ type = "integer" THEN "number"
    ELSE IF type = "boolean" THEN "boolean"
    ELSE "string"

\* properties[param.name] = { type: mapType(param.type), description }
SetProperty(properties, param) ==
    SetKey(properties, param.name,
           [type |-> mapType(param.type), description |-> param.description])

\* the push without its test: every param's name is listed
PushRequired_all(required, param) == Append(required, param.name)

\* if (param.required) required.push(param.name)
PushRequired(required, param) ==
    IF param.required THEN Append(required, param.name) ELSE required

\* the for loop over action.params, from the k-th param on
RECURSIVE SchemaLoop(_, _, _)
SchemaLoop(sch, params, k) ==
    IF k > Len(params) THEN sch
    ELSE SchemaLoop([sch EXCEPT !.properties = SetProperty(@, params[k]),
                                !.required = PushRequired(@, params[k])],
                    params, k + 1)

\* { type: 'object', properties: {}, required: [] }
EmptySchema == [type |-> "object", properties |-> EmptyObject, required |-> <<>>]

\* (every action comes from parseAgentMd, whose params is always an array)
buildInputSchema(act) ==
    IF Len(act.params) = 0
    THEN EmptySchema
    ELSE SchemaLoop(EmptySchema, act.params, 1)

\* a call of buildInputSchema returns
BuildSchema ==
    /\ action # Null
    /\ schema = Null
    /\ schema' = buildInputSchema(action)
    /\ UNCHANGED action
    /\ UNCHANGED notSchemaVars


(***************************************************************************)
(* The browser around the bridge: tabs, pages and manifest servers         *)
(***************************************************************************)
\* a tab as chrome.tabs.query returns it
TabA == [id |-> 1, url |-> "https://todo.example/list"]

TabB == [id |-> 2, url |-> "https://other.example/"]

TabC == [id |-> 3, url |-> "https://plain.example/index.html"]

Tabs == {TabA, TabB, TabC}

\* the position of the n-th "/" of s at or after position k, 0 when none
RECURSIVE NthSlash(_, _, _)
NthSlash(s, k, n) ==
    IF k > Len(s) THEN 0
    ELSE IF Char(s, k) = "/"
    THEN IF n = 1 THEN k ELSE NthSlash(s, k + 1, n - 1)
    ELSE NthSlash(s, k + 1, n)

\* new URL(url).origin of an http(s) URL: scheme, host and port
OriginOf(url) ==
    LET n == NthSlash(url, 1, 3) IN
    IF n = 0 THEN url ELSE substring(url, 1, n - 1)

\* the manifest of the todo app, and the one it serves after an update
ManifestV1 ==
    Join(<<"# SimpleTodo", "", "> A minimal todo list app.", "", "## Actions",
           "", "### list_todos", "- description: Returns all todo items",
           "- params: none", "", "### add_todo",
           "- description: Creates a new todo item", "- params:",
           "  - title (string, required): The text of the todo item">>)

ManifestV2 ==
    Join(<<ManifestV1, "", "### delete_todo",
           "- description: Permanently deletes a todo item", "- params:",
           "  - id (string, required): The ID of the todo to delete">>)

\* the manifest of another app
ManifestB ==
    Join(<<"# Other", "", "## Actions", "", "### add_todo",
           "- description: Adds an entry", "- params: none">>)

\* what fetch(url) may settle with: a response, or a rejection
FetchOutcomes(url) ==
    IF url = "https://todo.example/agent.md"
    THEN {[ok |-> TRUE, body |-> ManifestV1], [ok |-> TRUE, body |-> ManifestV2]}
    ELSE IF url = "https://other.example/agent.md"
    THEN {[ok |-> TRUE, body |-> ManifestB]}
    ELSE {[ok |-> FALSE, body |-> "Not Found"], [rejected |-> TRUE]}

\* typeof window.__agent[name] in each tab's page; the page of TabC has no
\* window.__agent
PageAgent(tabId) ==
    IF tabId = 1
    THEN [name \in {"add_todo", "list_todos", "secret"} |->
            IF name = "list_todos" THEN "string" ELSE "function"]
    ELSE IF tabId = 2
    THEN [name \in {"add_todo"} |-> "function"]
    ELSE EmptyObject

HasAgent(tabId) == tabId \in {1, 2}

\* typeof window.__agent[actionName]
TypeOfMember(tabId, actionName) ==
    IF actionName \in DOMAIN PageAgent(tabId)
    THEN PageAgent(tabId)[actionName]
    ELSE "undefined"

\* Result objects a page's callable resolves to
ResultOk ==
    JObject(<<Member("ok", JBoolean(TRUE)), Member("id", JString("t1")),
              Member("title", JString("Buy milk")),
              Member("completed", JBoolean(FALSE))>>)

ResultFailed ==
    JObject(<<Member("ok", JBoolean(FALSE)),
              Member("error", JString("Todo \"abc123\" not found"))>>)

\* how a call of a page's callable may end
CallableOutcomes ==
    {[returns |-> ResultOk], [returns |-> ResultFailed], [undefined |-> TRUE],
     [throws |-> "localStorage is not available"]}

(***************************************************************************)
(* The requests the native host forwards                                   *)
(***************************************************************************)
\* the most messages the bridge receives
MaxRequests == 2

\* the most calls of connectNativeHost
MaxConnects == 2

Arguments == JObject(<<Member("title", JString("Buy milk"))>>)

\* the params of a tools/call: a tool name with or without arguments
CallParams ==
    {[name |-> n, arguments |-> Arguments] :
        n \in {"agentmd_add_todo", "agentmd_list_todos"}}
    \cup {[name |-> "agentmd_secret"]}

\* the messages without their id; a tools/call may come without params
Requests ==
    {[method |-> "initialize", params |-> [protocolVersion |-> "2024-11-05"]],
     [method |-> "tools/list", params |-> EmptyObject],
     [method |-> "resources/list", params |-> EmptyObject],
     [method |-> "tools/call"]}
    \cup {[method |-> "tools/call", params |-> q] : q \in CallParams}

\* the message of request req under id
WithId(req, id) ==
    [f \in DOMAIN req \cup {"id"} |-> IF f = "id" THEN id ELSE req[f]]

(***************************************************************************)
(* The dispatcher and the action invoker (src/background.js)               *)
(***************************************************************************)
NoPort == 0

\* { jsonrpc: '2.0', id, result }
ResultEnvelope(id, result) == [jsonrpc |-> "2.0", id |-> id, result |-> result]

\* an error envelope that loses the id of the request
ErrorEnvelope_noId(id, code, message) ==
    [jsonrpc |-> "2.0", id |-> 0, error |-> [code |-> code, message |-> message]]

\* an error envelope that reports every error as an internal error
ErrorEnvelope_internal(id, code, message) ==
    [jsonrpc |-> "2.0", id |-> id, error |-> [code |-> -32603, message |-> message]]

\* { jsonrpc: '2.0', id, error: { code, message } }
ErrorEnvelope(id, code, message) ==
    [jsonrpc |-> "2.0", id |-> id, error |-> [code |-> code, message |-> message]]

\* a send that posts the envelope twice
Posted_twice(envelope) ==
    IF nativePort # NoPort
    THEN outbox \o <<[port |-> nativePort, msg |-> envelope],
                     [port |-> nativePort, msg |-> envelope]>>
    ELSE outbox

\* outbox after sendMCPResponse / sendMCPError: "if (nativePort) postMessage"
Posted(envelope) ==
    IF nativePort # NoPort
    THEN Append(outbox, [port |-> nativePort, msg |-> envelope])
    ELSE outbox

\* a call of handleMCPMessage that has just been entered
NewHandler(message) ==
    [msg |-> message, pc |-> "entry", tab |-> Null, origin |-> "", url |-> "",
     res |-> Null, actionName |-> "", invoked |-> <<>>, result |-> Null,
     err |-> Null, response |-> Null, atClear |-> "after"]

\* handler h ends by handing envelope to sendMCPResponse or sendMCPError
Finished(h, envelope) == [h EXCEPT !.pc = "done", !.response = envelope]

\* handler h ends in the catch of handleMCPMessage with an Error of message
Caught(h, message) ==
    Finished([h EXCEPT !.err = [message |-> message]],
             ErrorEnvelope(h.msg.id, -32603, message))

\* the result of initialize
InitializeResult ==
    [protocolVersion |-> "2024-11-05", capabilities |-> [tools |-> EmptyObject],
     serverInfo |-> [name |-> "agentmd-bridge", version |-> "0.1.0"]]

\* a tool that keeps the action's own name
ToolOf_noPrefix(c, act) ==
    [name |-> act.name,
     description |-> "[" \o c.appName \o "] " \o act.description,
     inputSchema |-> buildInputSchema(act)]

\* one element of handleToolsList's tools
ToolOf(c, act) ==
    [name |-> "agentmd_" \o act.name,
     description |-> "[" \o c.appName \o "] " \o act.description,
     inputSchema |-> buildInputSchema(act)]

\* handleToolsList's result for a contract
ToolsOf(c) == [tools |-> [n \in 1..Len(c.actions) |-> ToolOf(c, c.actions[n])]]

\* the tools of a contract that is null, as if it had actions
NoTools_null == [tools |-> Null]

\* handleToolsList's result without a contract
NoTools == [tools |-> <<>>]

\* name.replace(/^agentmd_/, '')
StripPrefix(name) ==
    IF startsWith(name, "agentmd_") THEN slice(name, Len("agentmd_")) ELSE name

\* a failure that does not carry the message
Failure_noError(message) == JObject(<<Member("ok", JBoolean(FALSE))>>)

\* { ok: false, error: message }
Failure(message) ==
    JObject(<<Member("ok", JBoolean(FALSE)), Member("error", JString(message))>>)

NoAgentResult == Failure("window.__agent is not available on this page")

NotFoundResult(actionName) ==
    Failure("Action \"" \o actionName \o "\" not found on window.__agent")

ScriptFailedResult == Failure("Script execution failed")

NoActiveTabResult == Failure("No active tab")

\* result.ok === false
OkIsFalse(result) == Get(result, "ok") = JBoolean(FALSE)


\* the injected function without its typeof test
InjectedFunc_noTypeTest(tabId, actionName, outcome) ==
    IF ~HasAgent(tabId)
    THEN [value |-> NoAgentResult, called |-> FALSE]
    ELSE IF "returns" \in DOMAIN outcome
    THEN [value |-> outcome.returns, called |-> TRUE]
    ELSE IF "throws" \in DOMAIN outcome
    THEN [value |-> Failure(outcome.throws), called |-> TRUE]
    ELSE [value |-> Null, called |-> TRUE]

\* what the function injected by callAgentAction does in the page of tabId when
\* the page's callable, if it is called, ends with outcome: the value the
\* function returns (Null: undefined) and whether it called the callable
InjectedFunc(tabId, actionName, outcome) ==
    IF ~HasAgent(tabId)
    THEN [value |-> NoAgentResult, called |-> FALSE]
    ELSE IF TypeOfMember(tabId, actionName) # "function"
    THEN [value |-> NotFoundResult(actionName), called |-> FALSE]
    ELSE IF "returns" \in DOMAIN outcome
    THEN [value |-> outcome.returns, called |-> TRUE]
    ELSE IF "throws" \in DOMAIN outcome
    THEN [value |-> Failure(outcome.throws), called |-> TRUE]
    ELSE [value |-> Null, called |-> TRUE]

\* an invoker that calls the page's callable again when its result is not ok
Invocations_retry(ran, call) ==
    IF ~ran.called THEN <<>>
    ELSE IF "returns" \in DOMAIN call.outcome /\ call.outcome.returns = ResultOk
    THEN <<call>>
    ELSE <<call, call>>

\* the calls of the page's callable one run of the injected function makes:
\* "return await window.__agent[actionName](params)"
Invocations(ran, call) == IF ran.called THEN <<call>> ELSE <<>>

\* results[0]?.result ?? { ok: false, error: 'Script execution failed' }
OrScriptFailed(value) == IF value = Null THEN ScriptFailedResult ELSE value

\* args || {}
OrEmpty(params) ==
    IF "arguments" \in DOMAIN params THEN params.arguments ELSE JObject(<<>>)

\* the action names tools/call requests lead to
CalledNames == {StripPrefix(q.name) : q \in {c \in CallParams : "name" \in DOMAIN c}}

\* the Result objects callAgentAction returns, and the one of "No active tab"
InvokerResults ==
    {OrScriptFailed(InjectedFunc(t.id, n, o).value) :
        t \in Tabs, n \in CalledNames, o \in CallableOutcomes}
    \cup {NoActiveTabResult}

\* JSON.stringify(result) of each of them
Stringified == [result \in InvokerResults |-> JSONstringify(result)]

\* handleToolCall's return value for the invoker's result
ToolCallResult(result) ==
    [content |-> <<[type |-> "text", text |-> Stringified[result]]>>,
     isError |-> OkIsFalse(result)]

\* handleToolCall's return value when there is no active tab
NoTabCallResult ==
    [content |-> <<[type |-> "text", text |-> Stringified[NoActiveTabResult]]>>]

\* the TypeError of handleToolCall's parameter pattern on undefined
DestructureError ==
    "Cannot destructure property 'name' of 'undefined' as it is undefined."

\* the Error executeScript rejects with on a page the extension cannot script
InjectionError == "Cannot access contents of the page"

\* handleMCPMessage up to its first await, or to its end when it has none,
\* on one of at most max messages drawn from requests
ReceiveFrom(requests, max) ==
    /\ nativePort # NoPort
    /\ Len(handlers) < max
    /\ \E req \in requests :
        LET m == WithId(req, Len(handlers) + 1)
            h == NewHandler(m)
            end(envelope) ==
                /\ handlers' = Append(handlers, Finished(h, envelope))
                /\ outbox' = Posted(envelope)
            caught == Caught(h, DestructureError)
        IN  \/ /\ m.method = "initialize"
               /\ end(ResultEnvelope(m.id, InitializeResult))
            \/ /\ m.method = "tools/list"
               /\ handlers' = Append(handlers, [h EXCEPT !.pc = "list_query"])
               /\ UNCHANGED outbox
            \/ /\ m.method = "tools/call"
               /\ "params" \in DOMAIN m
               /\ handlers' = Append(handlers, [h EXCEPT !.pc = "call_query"])
               /\ UNCHANGED outbox
            \/ /\ m.method = "tools/call"
               /\ "params" \notin DOMAIN m
               /\ handlers' = Append(handlers, caught)
               /\ outbox' = Posted(caught.response)
            \/ /\ m.method \notin {"initialize", "tools/list", "tools/call"}
               /\ end(ErrorEnvelope(m.id, -32601, "Method not found: " \o m.method))
    /\ UNCHANGED <<nativePort, connects, reconnectTimers, contractCache, activeTab>>
    /\ UNCHANGED notBridgeVars

Receive == ReceiveFrom(Requests, MaxRequests)

\* new URL(tab.url).origin of each tab
TabOrigin == [t \in Tabs |-> OriginOf(t.url)]

\* the texts the manifest servers answer with
ManifestTexts ==
    {res.body : res \in {r \in UNION {FetchOutcomes(TabOrigin[t] \o "/agent.md") : t \in Tabs} :
                            "body" \in DOMAIN r}}

\* parseAgentMd(text) of each of them
ParsedManifest == [text \in ManifestTexts |-> parseAgentMd(text)]

\* tab?.url
HasUrl(tab) == IF tab = Null THEN FALSE ELSE tab.url # ""

\* handler k ends with envelope
End(k, h, envelope) ==
    /\ handlers' = [handlers EXCEPT ![k] = Finished(h, envelope)]
    /\ outbox' = Posted(envelope)

\* handleToolsList after chrome.tabs.query: no contract without a tab URL, the
\* cached contract on a hit, and fetch(url) on a miss
ListQueryDone(k) ==
    /\ handlers[k].pc = "list_query"
    /\ LET h == [handlers[k] EXCEPT !.tab = activeTab]
           origin == TabOrigin[activeTab]
       IN  \/ /\ ~HasUrl(activeTab)
              /\ End(k, h, ResultEnvelope(h.msg.id, NoTools))
              /\ UNCHANGED contractCache
           \/ /\ HasUrl(activeTab)
              /\ origin \in DOMAIN contractCache
              /\ End(k, [h EXCEPT !.origin = origin],
                     ResultEnvelope(h.msg.id, ToolsOf(contractCache[origin])))
              /\ UNCHANGED contractCache
           \/ /\ HasUrl(activeTab)
              /\ origin \notin DOMAIN contractCache
              /\ handlers' = [handlers EXCEPT
                                ![k] = [h EXCEPT !.origin = origin,
                                                 !.url = origin \o "/agent.md",
                                                 !.pc = "fetch"]]
              /\ UNCHANGED <<outbox, contractCache>>
    /\ UNCHANGED <<nativePort, connects, reconnectTimers, activeTab>>
    /\ UNCHANGED notBridgeVars

\* fetch(url) resolved with a response whose status is ok
IsOk(res) == IF "rejected" \in DOMAIN res THEN FALSE ELSE res.ok

\* a fetchAndParseContract that caches null when the fetch fails
FetchDone_cacheFailure(k) ==
    /\ handlers[k].pc = "fetch"
    /\ LET h == handlers[k] IN
       \E res \in FetchOutcomes(h.url) :
           \/ /\ ~IsOk(res)
              /\ End(k, [h EXCEPT !.res = res], ResultEnvelope(h.msg.id, NoTools))
              /\ contractCache' = SetKey(contractCache, h.origin, Null)
           \/ /\ IsOk(res)
              /\ handlers' = [handlers EXCEPT ![k] = [h EXCEPT !.res = res, !.pc = "text"]]
              /\ UNCHANGED <<outbox, contractCache>>
    /\ UNCHANGED <<nativePort, connects, reconnectTimers, activeTab>>
    /\ UNCHANGED notBridgeVars

\* fetchAndParseContract after fetch(url): null on a rejection or a status
\* that is not ok, res.text() otherwise
FetchDone(k) ==
    /\ handlers[k].pc = "fetch"
    /\ LET h == handlers[k] IN
       \E res \in FetchOutcomes(h.url) :
           \/ /\ ~IsOk(res)
              /\ End(k, [h EXCEPT !.res = res], ResultEnvelope(h.msg.id, NoTools))
           \/ /\ IsOk(res)
              /\ handlers' = [handlers EXCEPT ![k] = [h EXCEPT !.res = res, !.pc = "text"]]
              /\ UNCHANGED outbox
    /\ UNCHANGED <<nativePort, connects, reconnectTimers, contractCache, activeTab>>
    /\ UNCHANGED notBridgeVars

\* fetchAndParseContract after res.text(): parse, store, return; then
\* handleToolsList maps the actions to tools
TextDone(k) ==
    /\ handlers[k].pc = "text"
    /\ LET h == handlers[k]
           parsed == ParsedManifest[h.res.body]
       IN  /\ contractCache' = SetKey(contractCache, h.origin, parsed)
           /\ End(k, h, ResultEnvelope(h.msg.id, ToolsOf(parsed)))
    /\ UNCHANGED <<nativePort, connects, reconnectTimers, activeTab>>
    /\ UNCHANGED notBridgeVars

\* handleToolCall after chrome.tabs.query: the "No active tab" result without
\* a tab, else the prefix is stripped and the script injected
CallQueryDone(k) ==
    /\ handlers[k].pc = "call_query"
    /\ LET h == [handlers[k] EXCEPT !.tab = activeTab]
           params == h.msg.params
       IN  \/ /\ activeTab = Null
              /\ End(k, h, ResultEnvelope(h.msg.id, NoTabCallResult))
           \/ /\ activeTab # Null
              /\ handlers' = [handlers EXCEPT
                    ![k] = [h EXCEPT !.actionName = StripPrefix(params.name),
                                     !.pc = "exec"]]
              /\ UNCHANGED outbox
    /\ UNCHANGED <<nativePort, connects, reconnectTimers, contractCache, activeTab>>
    /\ UNCHANGED notBridgeVars

\* callAgentAction after chrome.scripting.executeScript: it rejects, or the
\* injected function has run in the tab's page; then handleToolCall wraps
\* the result
ExecDone(k) ==
    /\ handlers[k].pc = "exec"
    /\ LET h == handlers[k] IN
       \/ /\ handlers' = [handlers EXCEPT ![k] = Caught(h, InjectionError)]
          /\ outbox' = Posted(Caught(h, InjectionError).response)
       \/ \E outcome \in CallableOutcomes :
            LET ran == InjectedFunc(h.tab.id, h.actionName, outcome)
                result == OrScriptFailed(ran.value)
                call == [tabId |-> h.tab.id, actionName |-> h.actionName,
                         params |-> OrEmpty(h.msg.params), outcome |-> outcome]
            IN  End(k, [h EXCEPT !.result = result,
                                 !.invoked = @ \o Invocations(ran, call)],
                    ResultEnvelope(h.msg.id, ToolCallResult(result)))
    /\ UNCHANGED <<nativePort, connects, reconnectTimers, contractCache, activeTab>>
    /\ UNCHANGED notBridgeVars

\* where a handler of tools/list stands when the cache is cleared: its fetch
\* is in flight, it has ended, or it has not looked at the cache yet
AtClear(h) ==
    IF h.msg.method # "tools/list" THEN h.atClear
    ELSE IF h.pc \in {"fetch", "text"} THEN "inflight"
    ELSE IF h.pc = "done" THEN "done"
    ELSE "after"

\* the popup's INVALIDATE_CACHE message
InvalidateCache ==
    /\ connects > 0
    /\ contractCache' = EmptyObject
    /\ handlers' = [k \in 1..Len(handlers) |->
                        [handlers[k] EXCEPT !.atClear = AtClear(handlers[k])]]
    /\ UNCHANGED <<nativePort, connects, reconnectTimers, activeTab, outbox>>
    /\ UNCHANGED notBridgeVars

\* the user activates another tab, or leaves the browser window
SwitchTab ==
    /\ connects > 0
    /\ activeTab' \in (Tabs \cup {Null}) \ {activeTab}
    /\ UNCHANGED <<nativePort, connects, reconnectTimers, contractCache, handlers, outbox>>
    /\ UNCHANGED notBridgeVars

\* connectNativeHost: connectNative returns a port, or throws
ConnectNativeHost(threw) ==
    /\ connects' = connects + 1
    /\ nativePort' = IF threw THEN nativePort ELSE connects + 1

\* an onDisconnect listener that sets the timer and leaves nativePort as it is
PortDisconnect_keepPort ==
    /\ nativePort # NoPort
    /\ reconnectTimers < MaxConnects
    /\ reconnectTimers' = reconnectTimers + 1
    /\ UNCHANGED <<nativePort, connects, contractCache, activeTab, handlers, outbox>>
    /\ UNCHANGED notBridgeVars

\* the port's onDisconnect listener
PortDisconnect ==
    /\ nativePort # NoPort
    /\ nativePort' = NoPort
    /\ reconnectTimers' = reconnectTimers + 1
    /\ UNCHANGED <<connects, contractCache, activeTab, handlers, outbox>>
    /\ UNCHANGED notBridgeVars

\* a setTimeout(connectNativeHost, 2000) fires
ReconnectTimer ==
    /\ reconnectTimers > 0
    /\ connects < MaxConnects
    /\ reconnectTimers' = reconnectTimers - 1
    /\ \E threw \in BOOLEAN : ConnectNativeHost(threw)
    /\ UNCHANGED <<contractCache, activeTab, handlers, outbox>>
    /\ UNCHANGED notBridgeVars


(***************************************************************************)
(* The actions the schema builder is run on                                *)
(***************************************************************************)
\* the longest parameter list
MaxParams == 3

ParamNames == {"title", "id"}

\* the type tags mapType knows, and one it does not
ParamTypes == {"string", "number", "integer", "boolean", "array"}

Params ==
    [name : ParamNames, type : ParamTypes, required : BOOLEAN,
     description : {"The text of the todo item"}]

\* no call of parseAgentMd is in progress
ParseIdle ==
    /\ markdown = ""
    /\ lines = <<>>
    /\ i = 0
    /\ contract = EmptyContract
    /\ section = Null
    /\ currentAction = Null
    /\ inActionsSection = FALSE
    /\ returned = EmptyContract

\* no call of buildInputSchema is in progress
SchemaIdle ==
    /\ action = Null
    /\ schema = Null

\* the service worker is not loaded
BridgeIdle ==
    /\ nativePort = NoPort
    /\ connects = 0
    /\ reconnectTimers = 0
    /\ contractCache = EmptyObject
    /\ activeTab = Null
    /\ handlers = <<>>
    /\ outbox = <<>>

\* no MCPClient has been constructed
HostIdle ==
    /\ clientStream = ""
    /\ clientRead = 0
    /\ extStream = <<>>
    /\ extRead = 0
    /\ inputBuffer = ""
    /\ headerBuf = <<>>
    /\ stdout = <<>>

ClientIdle ==
    /\ nextId = 0
    /\ pendingRequests = {}
    /\ promises = <<>>
    /\ timers = {}
    /\ stdin = <<>>
    /\ lastLine = Null
    /\ process = "none"

InitSchema ==
    /\ \E k \in 0..MaxParams : \E ps \in [1..k -> Params] :
          action = [NewAction("add_todo") EXCEPT !.params = ps]
    /\ schema = Null
    /\ ParseIdle
    /\ BridgeIdle
    /\ ClientIdle
    /\ HostIdle

NextSchema == BuildSchema

SpecSchema == InitSchema /\ [][NextSchema]_vars


\* the service worker has been loaded: "connectNativeHost();" has run
InitBridge ==
    /\ connects = 1
    /\ nativePort \in {NoPort, 1}
    /\ reconnectTimers = 0
    /\ contractCache = EmptyObject
    /\ activeTab \in Tabs \cup {Null}
    /\ handlers = <<>>
    /\ outbox = <<>>
    /\ ParseIdle
    /\ SchemaIdle
    /\ ClientIdle
    /\ HostIdle

NextBridge ==
    \/ Receive
    \/ \E k \in 1..Len(handlers) :
        \/ ListQueryDone(k)
        \/ FetchDone(k)
        \/ TextDone(k)
        \/ CallQueryDone(k)
        \/ ExecDone(k)
    \/ InvalidateCache
    \/ SwitchTab
    \/ PortDisconnect
    \/ ReconnectTimer

SpecBridge == InitBridge /\ [][NextBridge]_vars

\* the most tools/list messages the bridge receives when it receives no others
MaxListRequests == 3

ListRequests == {req \in Requests : req.method = "tools/list"}

ReceiveList == ReceiveFrom(ListRequests, MaxListRequests)

\* the service worker under a client that only lists tools, while the port
\* stays connected
NextCache ==
    \/ ReceiveList
    \/ \E k \in 1..Len(handlers) :
        \/ ListQueryDone(k)
        \/ FetchDone(k)
        \/ TextDone(k)
    \/ InvalidateCache
    \/ SwitchTab

SpecCache == InitBridge /\ [][NextCache]_vars


(***************************************************************************)
(* The manifests the parser is run on                                      *)
(***************************************************************************)
\* the longest manifest, in lines
MaxLines == 4

\* lines about the title and the description
TitleLines ==
    {"# SimpleTodo", "# ", "# Other", "> A minimal todo list app.", ">  ",
     "> All data is stored per-user session."}

\* lines about sections and action headings
HeadingLines ==
    {"## Actions", "## Notes", "### list_todos", "### add_todo",
     "> A minimal todo list app.", "- description: Creates a new todo item"}

\* parameter lines of the shape "name (type, required|optional): description"
WellFormedParamLines ==
    {"  - title (string, required): The text of the todo item",
     "  - id (number, optional): The ID"}

\* parameter lines that are not of that shape
MalformedParamLines == {"  - done (boolean, maybe): Whether it is done"}

\* the body lines of one action
BodyLines ==
    {"- params:", "- params: none", "- returns: The created todo object"}
    \cup WellFormedParamLines \cup MalformedParamLines

\* lines that are no part of any manifest
GarbageLines == {"", "#", "###", "- params", "- x (", ">\t<"}

\* the lines before the body lines
BodyPrefix == <<"## Actions", "### add_todo">>

\* the sequences of at most n elements of S
SeqsUpTo(S, n) == UNION {[1..k -> S] : k \in 0..n}

\* the manifests parsed, as sequences of lines
ManifestLines(k) ==
    [1..k -> TitleLines] \cup [1..k -> HeadingLines] \cup [1..k -> GarbageLines]
    \cup {BodyPrefix \o q : q \in [1..k -> BodyLines]}

InitParse ==
    /\ \E k \in 0..MaxLines : \E q \in ManifestLines(k) : markdown = Join(q)
    /\ lines = split(markdown)
    /\ i = 0
    /\ contract = InitialLocals.contract
    /\ section = InitialLocals.section
    /\ currentAction = InitialLocals.currentAction
    /\ inActionsSection = InitialLocals.inActionsSection
    /\ returned = Null
    /\ SchemaIdle
    /\ BridgeIdle
    /\ ClientIdle
    /\ HostIdle

NextParse == ParseLoop \/ ParseReturn

SpecParse == InitParse /\ [][NextParse]_vars

(***************************************************************************)
(* Claims about parseAgentMd                                               *)
(***************************************************************************)
\* the lines the loop has passed
Processed == SubSeq(lines, 1, i)

\* the names of the "### " headings of ls[k..] that stand inside a "## Actions"
\* section, in order; inActions: whether ls[k] is inside one
RECURSIVE DeclaredNames(_, _, _)
DeclaredNames(ls, k, inActions) ==
    IF k > Len(ls) THEN <<>>
    ELSE IF startsWith(ls[k], "## ")
    THEN DeclaredNames(ls, k + 1, toLowerCase(trim(slice(ls[k], 3))) = "actions")
    ELSE IF startsWith(ls[k], "### ") /\ inActions
    THEN <<trim(slice(ls[k], 4))>> \o DeclaredNames(ls, k + 1, inActions)
    ELSE DeclaredNames(ls, k + 1, inActions)

ActionNames(c) == [k \in 1..Len(c.actions) |-> c.actions[k].name]

\* C1: the contract parseAgentMd returns has one action per "### " heading of
\* the "## Actions" sections, in declaration order and under the declared
\* names, whatever lines precede or follow the action blocks.
C1_OneActionPerBlock ==
    returned # Null => ActionNames(returned) = DeclaredNames(lines, 1, FALSE)

\* the position of the last line of ls that starts with prefix, 0 when none
LastWith(ls, prefix) ==
    LET at == {k \in 1..Len(ls) : startsWith(ls[k], prefix)} IN
    IF at = {} THEN 0 ELSE CHOOSE k \in at : \A j \in at : j <= k

\* the manifest's last action block is still open at the end of the input:
\* its heading stands in an Actions section and no "## " heading follows it
EndsInBlock(ls) ==
    /\ LastWith(ls, "### ") > LastWith(ls, "## ")
    /\ LastWith(ls, "## ") > 0
    /\ toLowerCase(trim(slice(ls[LastWith(ls, "## ")], 3))) = "actions"

\* the body lines of that block
LastBlock(ls) == SubSeq(ls, LastWith(ls, "### ") + 1, Len(ls))

\* the parameter each well-formed parameter line declares
DeclaredParam(line) ==
    IF line = "  - title (string, required): The text of the todo item"
    THEN [name |-> "title", type |-> "string", required |-> TRUE,
          description |-> "The text of the todo item"]
    ELSE [name |-> "id", type |-> "number", required |-> FALSE,
          description |-> "The ID"]

\* the parameters the well-formed parameter lines of ls declare, in order
RECURSIVE DeclaredParams(_)
DeclaredParams(ls) ==
    IF Len(ls) = 0 THEN <<>>
    ELSE IF ls[1] \in WellFormedParamLines
    THEN <<DeclaredParam(ls[1])>> \o DeclaredParams(Tail(ls))
    ELSE DeclaredParams(Tail(ls))

\* the lines of ls after its last '- params: none' marker (ls when it has none)
AfterLastNone(ls) ==
    LET at == {k \in 1..Len(ls) : trim(ls[k]) = "- params: none"} IN
    IF at = {} THEN ls
    ELSE SubSeq(ls, (CHOOSE k \in at : \A j \in at : j <= k) + 1, Len(ls))

LastAction(c) == c.actions[Len(c.actions)]

\* C2 as stated: the params of an action are the well-formed parameter lines of
\* its block, in order; the malformed ones are left out and nothing is raised.
C2_AllWellFormedKept ==
    (returned # Null /\ EndsInBlock(lines)) =>
        /\ Len(returned.actions) > 0
        /\ LastAction(returned).params = DeclaredParams(LastBlock(lines))

\* C2, amended: the params of an action are the well-formed parameter lines
\* that follow the block's last '- params: none' marker (all of them when the
\* block has no marker), in order; malformed lines are left out and the parse
\* returns a contract.
C2_WellFormedKeptAfterNone ==
    (returned # Null /\ EndsInBlock(lines)) =>
        /\ Len(returned.actions) > 0
        /\ LastAction(returned).params
             = DeclaredParams(AfterLastNone(LastBlock(lines)))

\* a block with a malformed parameter line between two well-formed ones was
\* parsed, and both well-formed ones are in params
C2_Witness ==
    /\ returned # Null
    /\ EndsInBlock(lines)
    /\ \E a, b, c \in 1..Len(lines) :
        /\ LastWith(lines, "### ") < a /\ a < b /\ b < c
        /\ lines[a] \in WellFormedParamLines
        /\ lines[b] \in MalformedParamLines
        /\ lines[c] \in WellFormedParamLines
    /\ Len(returned.actions) > 0
    /\ Len(LastAction(returned).params) = 2

\* the trimmed texts of the lines of ls that start with marker
RECURSIVE MarkedTexts(_, _)
MarkedTexts(ls, marker) ==
    IF Len(ls) = 0 THEN <<>>
    ELSE IF startsWith(ls[1], marker)
    THEN <<trim(slice(ls[1], Len(marker)))>> \o MarkedTexts(Tail(ls), marker)
    ELSE MarkedTexts(Tail(ls), marker)

\* the first element of texts, "" when there is none
FirstOf(texts) == IF Len(texts) = 0 THEN "" ELSE texts[1]

\* the first non-empty element of texts, "" when there is none
FirstNonEmpty(texts) == FirstOf(SelectSeq(texts, LAMBDA t : t # ""))

\* C3 as stated: at every point of a parse appName is the text of the first
\* "# " line passed and description the text of the first "> " line passed,
\* also when that text is empty.
C3_FirstLineWins ==
    /\ contract.appName = FirstOf(MarkedTexts(Processed, "# "))
    /\ contract.description = FirstOf(MarkedTexts(Processed, "> "))

\* C3, amended: at every point of a parse appName is the text of the first
\* "# " line passed whose trimmed text is not empty, and description the text
\* of the first "> " line passed whose trimmed text is not empty; no later
\* "# " or "> " line changes them.
C3_FirstNonEmptyLineWins ==
    /\ contract.appName = FirstNonEmpty(MarkedTexts(Processed, "# "))
    /\ contract.description = FirstNonEmpty(MarkedTexts(Processed, "> "))

\* two "# " lines and two "> " lines with different non-empty texts were
\* passed, and the first of each is the one kept
C3_Witness ==
    LET names == SelectSeq(MarkedTexts(Processed, "# "), LAMBDA t : t # "")
        descs == SelectSeq(MarkedTexts(Processed, "> "), LAMBDA t : t # "")
    IN  /\ Len(names) >= 2 /\ names[1] # names[2]
        /\ Len(descs) >= 2 /\ descs[1] # descs[2]
        /\ contract.appName = names[1]
        /\ contract.description = descs[1]

(***************************************************************************)
(* Claims about buildInputSchema                                           *)
(***************************************************************************)
\* the names of the params flagged required, in declaration order
RequiredNames(params) ==
    LET flagged == SelectSeq(params, LAMBDA q : q.required) IN
    [k \in 1..Len(flagged) |-> flagged[k].name]

\* C4: the schema's required list is the names of the params flagged
\* required, in declaration order, and each of them is a key of properties;
\* an action without params gets no properties and no required names; and
\* add_todo with the required param title:string gets required = <<"title">>
\* and properties.title.type = "string".
C4_RequiredInOrder ==
    schema # Null =>
        /\ schema.required = RequiredNames(action.params)
        /\ \A k \in 1..Len(schema.required) :
              schema.required[k] \in DOMAIN schema.properties
        /\ Len(action.params) = 0 =>
              schema.properties = EmptyObject /\ schema.required = <<>>
        /\ (/\ action.name = "add_todo"
            /\ Len(action.params) = 1
            /\ action.params[1].name = "title"
            /\ action.params[1].type = "string"
            /\ action.params[1].required)
           => /\ schema.required = <<"title">>
              /\ schema.properties["title"].type = "string"

\* a schema was built for an action with an optional param followed by two
\* required ones of different names
C4_Witness ==
    /\ schema # Null
    /\ Len(action.params) = 3
    /\ ~action.params[1].required
    /\ action.params[2].required
    /\ action.params[3].required
    /\ action.params[2].name # action.params[3].name
    /\ Len(schema.required) = 2


(***************************************************************************)
(* MCPClient (src/agent.js)                                                *)
(***************************************************************************)
\* the most requests the client makes
MaxClientRequests == 3

Methods == {"tools/list", "tools/call"}

\* the params listTools and callTool pass to request()
ParamsOf(method) ==
    IF method = "tools/call"
    THEN JObject(<<Member("name", JString("agentmd_add_todo")),
                   Member("arguments", Arguments)>>)
    ELSE JObject(<<>>)

\* JSON.stringify({ jsonrpc: '2.0', id, method, params }) + '\n'
RequestLine(id, method) ==
    JSONstringify(JObject(<<Member("jsonrpc", JString("2.0")),
                            Member("id", JNumber(id)),
                            Member("method", JString(method)),
                            Member("params", ParamsOf(method))>>)) \o "\n"

\* the promise request() returns: pending, resolved with a value or rejected
\* with an Error of a message; by: the line whose handling settled it
NewPromise(method) ==
    [method |-> method, state |-> "pending", value |-> Null, message |-> "",
     by |-> Null]

\* a response line as the native host writes it
ResultLine(id, result) ==
    JSONstringify(JObject(<<Member("jsonrpc", JString("2.0")), Member("id", id),
                            Member("result", result)>>))

ErrorLine(id, code, message) ==
    JSONstringify(JObject(<<Member("jsonrpc", JString("2.0")), Member("id", id),
        Member("error", JObject(<<Member("code", JNumber(code)),
                                  Member("message", JString(message))>>))>>))

\* the lines the server's stdout may deliver: answers to every id a request
\* can have, a second answer to id 1, answers to ids no request has, and
\* lines that are blank or not JSON-RPC
ServerLines ==
    {ResultLine(JNumber(n), ResultOk) : n \in 1..(MaxClientRequests + 1)}
    \cup {ErrorLine(JNumber(n), -32601, "Method not found: tools/call") :
            n \in 1..MaxClientRequests}
    \cup {ResultLine(JNumber(1), ResultFailed),
          ResultLine(JString("1"), ResultOk),
          JSONstringify(JObject(<<Member("jsonrpc", JString("2.0")),
                                  Member("result", ResultOk)>>)),
          JSONstringify(JObject(<<Member("id", JNumber(2)), Member("error", JNull),
                                  Member("result", ResultFailed)>>)),
          "", "  ", "null", "[agentmd-host] started"}

\* the msg the 'line' handler tests on line, Null when it returns before the
\* test: the line is blank, JSON.parse throws, or msg is null and msg.id throws
MessageOf(line) ==
    IF trim(line) = "" THEN Null
    ELSE IF JSONparse(line) \in {SyntaxError, JNull} THEN Null
    ELSE JSONparse(line)

\* the msg of each line of the server
Message == [line \in ServerLines |-> MessageOf(line)]

\* value[key]: a member of an object, undefined (Null) on other values
Property(value, key) == IF value.t = "object" THEN Get(value, key) ELSE Null

\* an entry of pendingRequests that is not the one of msg.id
Entry_oldest(msg) ==
    IF pendingRequests = {} THEN 0
    ELSE CHOOSE id \in pendingRequests : \A other \in pendingRequests : id <= other

\* the entry of msg.id, and another one when there is none
Entry_orOldest(msg) ==
    LET id == Property(msg, "id") IN
    IF id = Null THEN Entry_oldest(msg)
    ELSE IF id.t # "number" THEN Entry_oldest(msg)
    ELSE IF id.v \in pendingRequests THEN id.v ELSE Entry_oldest(msg)

\* the key of the entry the handler takes for msg, 0 when it takes none:
\* msg.id !== undefined && this.pendingRequests.has(msg.id)
Entry(msg) ==
    LET id == Property(msg, "id") IN
    IF id = Null THEN 0
    ELSE IF id.t # "number" THEN 0
    ELSE IF id.v \in pendingRequests THEN id.v ELSE 0

\* if (value)
Truthy(value) ==
    value \notin {Null, JNull, JBoolean(FALSE), JString(""), JNumber(0)}

\* new Error(message).message
ErrorMessage(message) ==
    IF message = Null THEN ""
    ELSE IF message.t = "string" THEN message.v
    ELSE IF message.t = "object" THEN "[object Object]"
    ELSE JSONstringify(message)

\* the promise after the handler has settled it with msg
Settled(promise, msg, line) ==
    IF Truthy(Property(msg, "error"))
    THEN [promise EXCEPT !.state = "rejected", !.by = [line |-> line],
            !.message = ErrorMessage(Property(Property(msg, "error"), "message"))]
    ELSE [promise EXCEPT !.state = "resolved", !.by = [line |-> line],
            !.value = Property(msg, "result")]

\* a request() that does not advance nextId
Request_sameId ==
    /\ process = "running"
    /\ Len(promises) < MaxClientRequests
    /\ \E method \in Methods :
        /\ promises' = Append(promises, NewPromise(method))
        /\ stdin' = Append(stdin, RequestLine(nextId, method))
    /\ pendingRequests' = pendingRequests \cup {nextId}
    /\ timers' = timers \cup {nextId}
    /\ UNCHANGED <<nextId, lastLine, process>>
    /\ UNCHANGED notClientVars

\* request(method, params): the executor of its promise
Request ==
    /\ process = "running"
    /\ nextId <= MaxClientRequests
    /\ \E method \in Methods :
        /\ promises' = Append(promises, NewPromise(method))
        /\ stdin' = Append(stdin, RequestLine(nextId, method))
    /\ pendingRequests' = pendingRequests \cup {nextId}
    /\ timers' = timers \cup {nextId}
    /\ nextId' = nextId + 1
    /\ UNCHANGED <<lastLine, process>>
    /\ UNCHANGED notClientVars

\* the id of the response on line, 0 when the line carries none
LineId(line) ==
    LET id == IF Message[line] = Null THEN Null ELSE Property(Message[line], "id") IN
    IF id = Null THEN 0 ELSE IF id.t = "number" THEN id.v ELSE 0

\* a 'line' handler that settles the promise of msg.id whether or not
\* pendingRequests has its entry
OnLine_anyId ==
    /\ process = "running"
    /\ \E line \in ServerLines :
        /\ lastLine' = [line |-> line]
        /\ LET id == LineId(line)
           IN  IF id \in 1..Len(promises)
               THEN /\ pendingRequests' = pendingRequests \ {id}
                    /\ promises' = [promises EXCEPT ![id] = Settled(@, Message[line], line)]
               ELSE UNCHANGED <<pendingRequests, promises>>
    /\ UNCHANGED <<nextId, timers, stdin, process>>
    /\ UNCHANGED notClientVars

\* the 'line' handler of connect()
OnLine ==
    /\ process = "running"
    /\ \E line \in ServerLines :
        /\ lastLine' = [line |-> line]
        /\ LET msg == Message[line]
               id == IF msg = Null THEN 0 ELSE Entry(msg)
           IN  IF id = 0
               THEN UNCHANGED <<pendingRequests, promises>>
               ELSE /\ pendingRequests' = pendingRequests \ {id}
                    /\ promises' = [promises EXCEPT ![id] = Settled(@, msg, line)]
    /\ UNCHANGED <<nextId, timers, stdin, process>>
    /\ UNCHANGED notClientVars

\* a timer callback that rejects without looking at pendingRequests
Timeout_always(id) ==
    /\ id \in timers
    /\ timers' = timers \ {id}
    /\ pendingRequests' = pendingRequests \ {id}
    /\ promises' = [promises EXCEPT ![id] =
            [@ EXCEPT !.state = "rejected",
                      !.message = "Request timeout: " \o promises[id].method]]
    /\ UNCHANGED <<nextId, stdin, lastLine, process>>
    /\ UNCHANGED notClientVars

\* the callback of the setTimeout of request() for id
Timeout(id) ==
    /\ id \in timers
    /\ timers' = timers \ {id}
    /\ IF id \in pendingRequests
       THEN /\ pendingRequests' = pendingRequests \ {id}
            /\ promises' = [promises EXCEPT ![id] =
                    [@ EXCEPT !.state = "rejected",
                              !.message = "Request timeout: " \o promises[id].method]]
       ELSE UNCHANGED <<pendingRequests, promises>>
    /\ UNCHANGED <<nextId, stdin, lastLine, process>>
    /\ UNCHANGED notClientVars

\* the 'exit' handler of connect(): the server process has ended, and the
\* handler logs its code
Exit ==
    /\ process = "running"
    /\ process' = "exited"
    /\ UNCHANGED <<nextId, pendingRequests, promises, timers, stdin, lastLine>>
    /\ UNCHANGED notClientVars

\* disconnect(): rl.close() and process.kill()
Disconnect ==
    /\ process \in {"running", "exited"}
    /\ process' = "killed"
    /\ UNCHANGED <<nextId, pendingRequests, promises, timers, stdin, lastLine>>
    /\ UNCHANGED notClientVars

\* the client has been constructed and listens to its server's stdout
InitClient ==
    /\ nextId = 1
    /\ pendingRequests = {}
    /\ promises = <<>>
    /\ timers = {}
    /\ stdin = <<>>
    /\ lastLine = Null
    /\ process = "running"
    /\ ParseIdle
    /\ SchemaIdle
    /\ BridgeIdle
    /\ HostIdle

NextClient ==
    \/ Request
    \/ OnLine
    \/ \E id \in timers : Timeout(id)
    \/ Exit
    \/ Disconnect

SpecClient == InitClient /\ [][NextClient]_vars

(***************************************************************************)
(* MCPClient.callTool (src/agent.js)                                       *)
(***************************************************************************)
\* result.content?.[0]?.text
ContentText(result) ==
    IF "content" \in DOMAIN result
    THEN IF Len(result.content) > 0
         THEN IF "text" \in DOMAIN result.content[1]
              THEN result.content[1].text
              ELSE ""
         ELSE ""
    ELSE ""

\* what callTool returns for the result of its tools/call request: the
\* decoded text, the text itself when it is not JSON, or the result as it is
callTool(result) ==
    LET text == ContentText(result) IN
    IF text # ""
    THEN LET value == JSONparse(text) IN
         IF value = SyntaxError THEN JString(text) ELSE value
    ELSE result

(***************************************************************************)
(* Properties of the dispatcher and the action invoker                     *)
(***************************************************************************)
\* haystack.includes(needle)
Contains(haystack, needle) ==
    \E k \in 1..(Len(haystack) - Len(needle) + 1) :
        substring(haystack, k, k + Len(needle) - 1) = needle

\* the handlers of tools/call requests in which the injected function has run
RanCalls == {k \in 1..Len(handlers) : handlers[k].result # Null}

\* the name handler k asks for is not a callable of the registry of its page
NotCallable(k) ==
    TypeOfMember(handlers[k].tab.id, handlers[k].actionName) # "function"

\* C5: a tools/call whose action name is absent from the window.__agent
\* registry of the page, or is present there but not callable, invokes
\* nothing and does not throw: the invoker returns a Result with ok = false
\* whose error text contains the action name; when the page has no registry
\* the Result has ok = false as well, and the request is answered by a result
\* envelope, not by an error.
C5_AbsentActionFails ==
    \A k \in RanCalls :
        LET h == handlers[k] IN
        NotCallable(k) =>
            /\ h.invoked = <<>>
            /\ OkIsFalse(h.result)
            /\ "result" \in DOMAIN h.response
            /\ HasAgent(h.tab.id) => Contains(Get(h.result, "error").v, h.actionName)

\* a name that is in the registry but not callable has been asked for in one
\* page, and some name in a page without registry
C5_Witness ==
    \E k1, k2 \in RanCalls :
        /\ handlers[k1].pc = "done" /\ handlers[k2].pc = "done"
        /\ HasAgent(handlers[k1].tab.id)
        /\ TypeOfMember(handlers[k1].tab.id, handlers[k1].actionName) = "string"
        /\ ~HasAgent(handlers[k2].tab.id)

\* the action names the manifests served at origin declare
DeclaredAt(origin) ==
    UNION {{act.name : act \in
                {ParsedManifest[res.body].actions[n] :
                    n \in 1..Len(ParsedManifest[res.body].actions)}} :
           res \in {r \in FetchOutcomes(origin \o "/agent.md") : IsOk(r)}}

\* C6: a tools/call whose tool name corresponds to no action declared in the
\* contract of the active tab's origin executes no callable of the page,
\* whatever the page's registry exposes, and is answered by a result with
\* isError = true.
C6_UndeclaredNeverExecuted ==
    \A k \in RanCalls :
        LET h == handlers[k] IN
        h.actionName \notin DeclaredAt(TabOrigin[h.tab]) =>
            /\ h.invoked = <<>>
            /\ h.response.result.isError

\* the result envelopes of tools/call requests that were posted to the port
PostedCallResults ==
    {outbox[n].msg.result : n \in {m \in 1..Len(outbox) :
        IF "result" \in DOMAIN outbox[m].msg
        THEN "content" \in DOMAIN outbox[m].msg.result
        ELSE FALSE}}

\* C7: every tools/call result carries isError, and isError is true exactly
\* when the Result object wrapped in its text has ok = false, on every path
\* through handleToolCall, the one without an active tab included.
C7_IsErrorIffNotOk ==
    \A result \in PostedCallResults :
        /\ "isError" \in DOMAIN result
        /\ result.isError = OkIsFalse(JSONparse(result.content[1].text))

\* the handlers whose page called the callable and got a Result object back
ReturnedCalls ==
    {k \in RanCalls :
        IF handlers[k].invoked # <<>>
        THEN "returns" \in DOMAIN handlers[k].invoked[1].outcome
        ELSE FALSE}

\* C8: for any Result object the page's callable returns, the response puts
\* the JSON text of that object in content[0].text, with isError = false
\* when its ok is true, and MCPClient.callTool decodes the response's result
\* back to the same object.
C8_CallToolRoundTrip ==
    \A k \in ReturnedCalls :
        LET h == handlers[k]
            object == h.invoked[1].outcome.returns
        IN  /\ h.response.result.content[1].text = JSONstringify(object)
            /\ Get(object, "ok") = JBoolean(TRUE) => ~h.response.result.isError
            /\ callTool(h.response.result) = object

\* add_todo has returned the created todo, and another call a failure Result
C8_Witness ==
    \E k1, k2 \in ReturnedCalls :
        /\ handlers[k1].actionName = "add_todo"
        /\ handlers[k1].invoked[1].params = Arguments
        /\ handlers[k1].invoked[1].outcome.returns = ResultOk
        /\ handlers[k1].response.result.isError = FALSE
        /\ handlers[k2].invoked[1].outcome.returns = ResultFailed

(***************************************************************************)
(* Properties of MCPClient                                                 *)
(***************************************************************************)
\* the requests whose promise the handling of a response line has settled
SettledByLine == {id \in 1..Len(promises) : promises[id].by # Null}

\* C9: with several requests in flight, the promise of request id is settled
\* by a response only if the response carries that id, in whatever order the
\* responses arrive: it is resolved with that response's result, or rejected
\* with the message of that response's error.
C9_SettledByOwnResponse ==
    \A id \in SettledByLine :
        LET promise == promises[id]
            msg == Message[promise.by.line]
        IN  /\ Get(msg, "id") = JNumber(id)
            /\ IF Get(msg, "error") \in {Null, JNull}
               THEN /\ promise.state = "resolved"
                    /\ promise.value = Get(msg, "result")
               ELSE /\ promise.state = "rejected"
                    /\ JString(promise.message) = Get(Get(msg, "error"), "message")

\* three requests were in flight; the third has been rejected and the second
\* resolved by their responses while the first is still pending
C9_Witness ==
    /\ SettledByLine = {2, 3}
    /\ promises[3].state = "rejected"
    /\ promises[2].state = "resolved"
    /\ promises[2].value = ResultOk
    /\ 1 \in pendingRequests

\* a step of the 'line' handler on line
OnLineStep(line) ==
    /\ lastLine' = [line |-> line]
    /\ UNCHANGED <<nextId, timers, stdin>>

\* C10: a response line whose id is no key of pendingRequests, or that has
\* no id, is dropped: handling it settles no promise and leaves
\* pendingRequests as it was, so the other requests stay pending.
C10_UnmatchedLineDropped ==
    [][\A line \in ServerLines :
          (OnLineStep(line) /\ LineId(line) \notin pendingRequests)
              => UNCHANGED <<pendingRequests, promises>>]_vars

\* the answer to request 1 has come after its timeout, when the handler had
\* no entry for it, and request 2 is pending
C10_Witness ==
    /\ lastLine = [line |-> ResultLine(JNumber(1), ResultOk)]
    /\ Len(promises) >= 2
    /\ promises[1].state = "rejected"
    /\ promises[1].by = Null
    /\ promises[2].state = "pending"
    /\ 2 \in pendingRequests

\* a step of the timer callback of request id
TimeoutStep(id) ==
    /\ id \in timers
    /\ timers' = timers \ {id}
    /\ UNCHANGED <<nextId, stdin, lastLine, process>>

\* C11: when the timeout of a request fires and no matching response has
\* come, the request's promise is rejected with a timeout error and its id is
\* removed from pendingRequests; when the request was answered before, the
\* firing of its timer changes neither its promise nor pendingRequests.
C11_TimeoutRejectsPending ==
    [][\A id \in timers :
          TimeoutStep(id) =>
              IF id \in pendingRequests
              THEN /\ pendingRequests' = pendingRequests \ {id}
                   /\ promises'[id].state = "rejected"
                   /\ promises'[id].by = Null
                   /\ promises'[id].message = "Request timeout: " \o promises[id].method
                   /\ \A other \in (1..Len(promises)) \ {id} :
                          promises'[other] = promises[other]
              ELSE UNCHANGED <<pendingRequests, promises>>]_vars

\* the timer of request 1 has fired with no response, and the timer of
\* request 2 after its response had resolved it
C11_Witness ==
    /\ Len(promises) >= 2
    /\ timers \cap {1, 2} = {}
    /\ pendingRequests \cap {1, 2} = {}
    /\ promises[1].state = "rejected"
    /\ promises[1].by = Null
    /\ promises[1].message = "Request timeout: " \o promises[1].method
    /\ promises[2].state = "resolved"
    /\ promises[2].by # Null

(***************************************************************************)
(* The contract cache                                                      *)
(***************************************************************************)

\* the fetch of handler h delivered a manifest
FetchedText(h) == IF h.res = Null THEN FALSE ELSE IsOk(h.res)

\* handler k of tools/list ended with the tools of a contract of its origin
ListedContract(k) ==
    /\ handlers[k].msg.method = "tools/list"
    /\ handlers[k].pc = "done"
    /\ handlers[k].origin # ""
    /\ (handlers[k].url = "" \/ FetchedText(handlers[k]))

\* handler k is the one tools/list that looked at the cache after the last
\* INVALIDATE_CACHE, and it has ended
NextListAfterClear(k) ==
    /\ handlers[k].msg.method = "tools/list"
    /\ handlers[k].pc = "done"
    /\ handlers[k].atClear = "after"
    /\ \A other \in (1..Len(handlers)) \ {k} : handlers[other].atClear # "after"

\* origin was cached by a tools/list that ended before the last
\* INVALIDATE_CACHE
CachedBeforeClear(origin) ==
    \E j \in 1..Len(handlers) :
        /\ ListedContract(j)
        /\ handlers[j].atClear = "done"
        /\ handlers[j].origin = origin

\* C12: after the cache is invalidated, the next tools/list for an origin that
\* was cached before performs a new fetch, and its tools are built from the
\* manifest that fetch returned.
C12_NextListRefetches ==
    \A k \in 1..Len(handlers) :
        (NextListAfterClear(k) /\ CachedBeforeClear(handlers[k].origin)) =>
            /\ handlers[k].url # ""
            /\ FetchedText(handlers[k]) =>
                   handlers[k].response.result = ToolsOf(ParsedManifest[handlers[k].res.body])

\* handler h of tools/list found no contract: the active tab has no URL, the
\* fetch was rejected, or the response status was not ok
NoTabUrl(h) == h.pc = "done" /\ h.msg.method = "tools/list" /\ ~HasUrl(h.tab)

FetchRejected(h) ==
    /\ h.pc = "done" /\ h.msg.method = "tools/list"
    /\ IF h.res = Null THEN FALSE ELSE "rejected" \in DOMAIN h.res

StatusNotOk(h) ==
    /\ h.pc = "done" /\ h.msg.method = "tools/list"
    /\ IF h.res = Null \/ "rejected" \in DOMAIN h.res THEN FALSE ELSE ~h.res.ok

\* C13: a tools/list for which no contract can be resolved (no active tab URL,
\* network error, non-success status) is answered with the result
\* {tools: []} and never with a JSON-RPC error.
C13_NoContractEmptyTools ==
    \A k \in 1..Len(handlers) :
        (NoTabUrl(handlers[k]) \/ FetchRejected(handlers[k]) \/ StatusNotOk(handlers[k])) =>
            /\ "error" \notin DOMAIN handlers[k].response
            /\ handlers[k].response =
                   [jsonrpc |-> "2.0", id |-> handlers[k].msg.id, result |-> [tools |-> <<>>]]

C13_Witness ==
    /\ Len(handlers) = 3
    /\ NoTabUrl(handlers[1])
    /\ FetchRejected(handlers[2])
    /\ StatusNotOk(handlers[3])
    /\ \A k \in 1..3 : handlers[k].response.result = [tools |-> <<>>]

\* tools is the list handleToolsList makes of contract c: one tool per action,
\* in the order of the actions, with the prefixed name and the bracketed
\* application name
ToolPerAction(tools, c) ==
    /\ Len(tools) = Len(c.actions)
    /\ \A n \in 1..Len(c.actions) :
        /\ tools[n].name = "agentmd_" \o c.actions[n].name
        /\ tools[n].description =
               "[" \o c.appName \o "] " \o c.actions[n].description

\* the contracts the manifests of origin can parse to
ContractsOf(origin) ==
    {ParsedManifest[res.body] :
        res \in {r \in FetchOutcomes(origin \o "/agent.md") : IsOk(r)}}

\* C14: tools/list returns exactly one tool per action of the contract of the
\* active origin, in declaration order, named agentmd_<name> and described
\* "[appName] description"; the list is computed from the contract in hand at
\* each call (the manifest just fetched, or the cached contract of the origin)
\* and is as long as contract.actions.
C14_OneToolPerAction ==
    \A k \in 1..Len(handlers) :
        ListedContract(k) =>
            LET tools == handlers[k].response.result.tools IN
            IF FetchedText(handlers[k])
            THEN ToolPerAction(tools, ParsedManifest[handlers[k].res.body])
            ELSE \E c \in ContractsOf(handlers[k].origin) : ToolPerAction(tools, c)

C14_Witness ==
    /\ Len(handlers) = 3
    /\ \A k \in 1..3 : ListedContract(k) /\ handlers[k].origin = TabOrigin[TabA]
    /\ Len(handlers[1].response.result.tools) = 2
    /\ handlers[2].url = ""
    /\ Len(handlers[2].response.result.tools) = 2
    /\ Len(handlers[3].response.result.tools) = 3
    /\ handlers[3].response.result.tools[3].name = "agentmd_delete_todo"

(***************************************************************************)
(* The dispatcher's errors                                                 *)
(***************************************************************************)

KnownMethods == {"initialize", "tools/list", "tools/call"}

\* the messages posted for request id
PostedFor(id) == {n \in 1..Len(outbox) : outbox[n].msg.id = id}

\* C15: a request whose method is none of initialize, tools/list, tools/call
\* is answered with the JSON-RPC error -32601 "Method not found: <method>"
\* under the request's id and with no result; nothing is fetched and no action
\* is invoked for it.
C15_UnknownMethodError ==
    \A k \in 1..Len(handlers) :
        LET h == handlers[k] IN
        h.msg.method \notin KnownMethods =>
            /\ h.pc = "done"
            /\ h.response =
                   [jsonrpc |-> "2.0", id |-> h.msg.id,
                    error |-> [code |-> -32601,
                               message |-> "Method not found: " \o h.msg.method]]
            /\ \A n \in PostedFor(h.msg.id) : outbox[n].msg = h.response
            /\ Cardinality(PostedFor(h.msg.id)) = 1
            /\ h.url = "" /\ h.res = Null
            /\ h.invoked = <<>>

C15_Witness ==
    /\ Len(handlers) = 2
    /\ handlers[1].msg.method = "tools/list" /\ handlers[1].pc = "text"
    /\ handlers[2].msg.method = "resources/list"
    /\ handlers[2].response.error.message = "Method not found: resources/list"
    /\ PostedFor(2) # {}

\* C16: an exception raised while tools/list or tools/call is handled (a
\* tools/call without a params object, a script injection that fails) is
\* answered with the JSON-RPC error -32603 whose message is the exception's
\* text and whose id is the request's id, and with nothing else; a request
\* that raised none gets no such error.
C16_ExceptionIsInternalError ==
    \A k \in 1..Len(handlers) :
        LET h == handlers[k] IN
        /\ (h.msg.method = "tools/call" /\ "params" \notin DOMAIN h.msg) =>
               /\ h.pc = "done"
               /\ h.err = [message |-> DestructureError]
        /\ h.err # Null =>
               /\ h.pc = "done"
               /\ h.response =
                      [jsonrpc |-> "2.0", id |-> h.msg.id,
                       error |-> [code |-> -32603, message |-> h.err.message]]
               /\ \A n \in PostedFor(h.msg.id) : outbox[n].msg = h.response
               /\ Cardinality(PostedFor(h.msg.id)) <= 1
        /\ (h.pc = "done" /\ h.err = Null /\ "error" \in DOMAIN h.response) =>
               h.response.error.code # -32603

\* both exceptions were answered, and the request that came after the first
\* one was handled
C16_Witness ==
    /\ Len(handlers) = 2
    /\ handlers[1].err = [message |-> DestructureError]
    /\ PostedFor(1) # {}
    /\ handlers[2].msg.method = "tools/call"
    /\ handlers[2].err = [message |-> InjectionError]
    /\ PostedFor(2) # {}
    /\ outbox[Len(outbox)].msg.id = 2
    /\ outbox[Len(outbox)].msg.error.code = -32603

\* the calls of page callables made for request id, over all handlers
InvocationsFor(id) ==
    {<<k, n>> \in (1..Len(handlers)) \X (1..2) :
        /\ handlers[k].msg.id = id
        /\ n <= Len(handlers[k].invoked)}

\* C17: for every tools/call the dispatcher handles, the page's action is
\* invoked at most once, whether the call fails, the port is lost or a new
\* port is connected; a handler that has invoked it has ended.
C17_InvokedAtMostOnce ==
    \A k \in 1..Len(handlers) :
        /\ Len(handlers[k].invoked) <= 1
        /\ Cardinality(InvocationsFor(handlers[k].msg.id)) <= 1
        /\ handlers[k].msg.method # "tools/call" => handlers[k].invoked = <<>>
        /\ handlers[k].invoked # <<>> => handlers[k].pc = "done"

\* a call that failed, and a call that ended without a port, were each invoked
\* once, and a new port has been connected since
C17_Witness ==
    /\ Len(handlers) = 2
    /\ \A k \in 1..2 : Len(handlers[k].invoked) = 1
    /\ handlers[1].invoked[1].outcome = [throws |-> "localStorage is not available"]
    /\ handlers[2].invoked[1].outcome = [returns |-> ResultFailed]
    /\ PostedFor(2) = {}
    /\ connects = 2
    /\ nativePort # NoPort

(***************************************************************************)
(* Reconnection to the native host                                         *)
(***************************************************************************)

\* C18: whenever the bridge has no native port, whether the port was lost or
\* the attempt to connect failed, exactly one reconnect is scheduled, so that
\* connectNativeHost is called again.  connectNativeHost is called only at
\* load and by these timers, and only a port can schedule one: a state without
\* a port and without a timer is one from which it is never called again.
C18_ReconnectScheduled ==
    nativePort = NoPort => reconnectTimers = 1

(***************************************************************************)
(* Teardown of the client's transport                                      *)
(***************************************************************************)

\* C19: when the client's transport is torn down, by the exit of the server
\* or by disconnect(), every pending request is rejected with a disconnect
\* error and removed from pendingRequests.
C19_TeardownRejectsPending ==
    process \in {"exited", "killed"} =>
        /\ pendingRequests = {}
        /\ \A id \in 1..Len(promises) : promises[id].state # "pending"

(***************************************************************************)
(* Origin scoping                                                          *)
(***************************************************************************)

\* handler j is the last tools/list before request k, it has ended, and it
\* listed a tool called name
ListedLastBefore(j, k, name) ==
    /\ j < k
    /\ handlers[j].msg.method = "tools/list"
    /\ handlers[j].pc = "done"
    /\ \A between \in (j + 1)..(k - 1) : handlers[between].msg.method # "tools/list"
    /\ \E n \in 1..Len(handlers[j].response.result.tools) :
           handlers[j].response.result.tools[n].name = name

\* C20: the bridge never calls actions cross-origin: when the active tab
\* changes between a tools/list and a later tools/call, a tool that was listed
\* from origin A is never invoked in a page of origin B.
C20_NoCrossOriginCall ==
    \A k \in 1..Len(handlers) : \A j \in 1..Len(handlers) :
        (/\ handlers[k].invoked # <<>>
         /\ ListedLastBefore(j, k, handlers[k].msg.params.name)) =>
            TabOrigin[handlers[k].tab] = handlers[j].origin

(***************************************************************************)
(* The parser on arbitrary text                                            *)
(***************************************************************************)

IsString(v) == v \in STRING

\* value is a contract: the four fields, of the right kinds
IsContract(value) ==
    /\ DOMAIN value = {"appName", "description", "auth", "actions"}
    /\ IsString(value.appName)
    /\ IsString(value.description)
    /\ DOMAIN value.auth \subseteq {"type", "note"}
    /\ DOMAIN value.actions = 1..Len(value.actions)

\* C21: parseAgentMd is total on strings: for every text, garbage included,
\* it returns after one pass over the lines, without raising, a contract that
\* has its four fields (appName, description, auth, actions), each possibly
\* empty.  The pass is the loop's variant: i counts the lines done and never
\* passes their number, the loop body has a value on every line that is left
\* (no line makes it fail), and the return comes after the last line.
C21_ParseTotal ==
    /\ i <= Len(lines)
    /\ (returned = Null /\ i < Len(lines)) =>
           DOMAIN ParseLine(Locals, lines[i + 1]) = DOMAIN InitialLocals
    /\ returned # Null => (i = Len(lines) /\ IsContract(returned))

\* garbage has been parsed to the empty contract
C21_Witness ==
    /\ lines = <<"#", "###", "- x (", ">\t<">>
    /\ returned = [appName |-> "", description |-> "", auth |-> EmptyObject,
                   actions |-> <<>>]

\* the loop passes a "## " line while an action is in progress
SectionHeadingStep ==
    /\ returned = Null
    /\ i < Len(lines)
    /\ i' = i + 1
    /\ startsWith(lines[i + 1], "## ")
    /\ currentAction # Null

\* C25: a level-2 heading line ends the action in progress by flushing it into
\* actions, so that an action block followed by a "## " heading is still among
\* the actions of the contract.
C25_SectionHeadingFlushes ==
    [][SectionHeadingStep =>
           /\ contract'.actions = Append(contract.actions, currentAction)
           /\ currentAction' = Null]_vars

\* the loop passes a "> " line after a "## " heading has been seen
LateBlockquoteStep ==
    /\ returned = Null
    /\ i < Len(lines)
    /\ i' = i + 1
    /\ startsWith(lines[i + 1], "> ")
    /\ section # Null

\* C26: a blockquote line sets description only before any "## " section
\* heading: a "> " line that comes after a level-2 heading leaves description
\* as it is, so that it stays empty when no earlier line set it.
C26_BlockquoteOnlyBeforeSections ==
    [][LateBlockquoteStep => contract'.description = contract.description]_vars

\* ls[k] is a line of an action's body that is neither a heading nor one of
\* the property lines
IsPlainBodyLine(line) ==
    /\ ~startsWith(line, "#")
    /\ \A key \in {"- description:", "- returns:", "- example:", "- params:"} :
           ~startsWith(trim(line), key)

\* ls[k] stands in a params block: a "- params:" line that is not the
\* "- params: none" marker precedes it, with nothing but plain lines between
InParamsBlock(ls, k) ==
    \E p \in 1..(k - 1) :
        /\ startsWith(trim(ls[p]), "- params:")
        /\ trim(ls[p]) # "- params: none"
        /\ \A q \in (p + 1)..(k - 1) : IsPlainBodyLine(ls[q])

\* the loop passes a well-formed parameter line that stands in no params
\* block, while an action is in progress
StrayParamStep ==
    /\ returned = Null
    /\ i < Len(lines)
    /\ i' = i + 1
    /\ currentAction # Null
    /\ paramMatch(trim(lines[i + 1])) # Null
    /\ ~InParamsBlock(lines, i + 1)

\* C27: well-formed parameter lines are collected only as part of a
\* "- params:" block: a parameter line after a "- params: none" marker, or
\* outside any params block, does not end up in params, so that params is
\* empty exactly when the source declared no parameters.
C27_ParamsOnlyInBlock ==
    [][StrayParamStep => currentAction'.params = currentAction.params]_vars

\* C28: a level-3 heading starts a new action, flushing the one in progress,
\* only while the current section is "actions".  On every pass of the loop:
\* inActionsSection says that the section is "actions"; outside it no action
\* is in progress; a "### " line inside it pushes the action in progress and
\* starts the action of its name; every other line, "### " lines outside the
\* actions section included, leaves the actions as they are and starts none.
C28_ActionsOnlyInActionsSection ==
    [][(returned = Null /\ i < Len(lines) /\ i' = i + 1) =>
          LET line == lines[i + 1] IN
          /\ inActionsSection <=> section = [name |-> "actions"]
          /\ ~inActionsSection => currentAction = Null
          /\ IF startsWith(line, "### ") /\ inActionsSection
             THEN /\ currentAction' = NewAction(trim(slice(line, 4)))
                  /\ contract'.actions =
                         IF currentAction = Null THEN contract.actions
                         ELSE Append(contract.actions, currentAction)
             ELSE /\ contract'.actions = contract.actions
                  /\ currentAction = Null => currentAction' = Null]_vars

\* the heading before the Actions section, inside another section, made no
\* action; the one inside the Actions section did
C28_Witness ==
    /\ lines = <<"## Notes", "### add_todo", "## Actions", "### list_todos">>
    /\ returned # Null
    /\ ActionNames(returned) = <<"list_todos">>

(***************************************************************************)
(* Types and repeated names in the schema                                  *)
(***************************************************************************)

\* the JSON Schema type of each tag
SchemaTypeOf ==
    [tag \in ParamTypes |->
        CASE tag = "string" -> "string"
          [] tag = "number" -> "number"
          [] tag = "integer" -> "number"
          [] tag = "boolean" -> "boolean"
          [] OTHER -> "string"]

\* the position of the last param of ps called name
LastNamed(ps, name) ==
    CHOOSE k \in 1..Len(ps) :
        /\ ps[k].name = name
        /\ \A later \in (k + 1)..Len(ps) : ps[later].name # name

\* C29: mapType maps every type tag into {string, number, boolean}: string to
\* string, number and integer to number, boolean to boolean, every other tag
\* to string; when two params of an action share a name, the entry of that
\* name in properties is the one of the later param.
C29_TypesMappedLaterWins ==
    schema # Null =>
        \A k \in 1..Len(action.params) :
            LET name == action.params[k].name
                last == action.params[LastNamed(action.params, name)]
            IN  /\ name \in DOMAIN schema.properties
                /\ schema.properties[name].type \in {"string", "number", "boolean"}
                /\ schema.properties[name].type = SchemaTypeOf[last.type]
                /\ schema.properties[name].description = last.description

C29_Witness ==
    /\ schema # Null
    /\ Len(action.params) = 3
    /\ action.params[1].name = "title" /\ action.params[1].type = "integer"
    /\ action.params[2].name = "title" /\ action.params[2].type = "boolean"
    /\ action.params[3].name = "id" /\ action.params[3].type = "array"
    /\ schema.properties["title"].type = "boolean"
    /\ schema.properties["id"].type = "string"

\* the exception the page's callable threw in handler h, Null when it threw none
Thrown(h) ==
    IF h.invoked = <<>> THEN Null
    ELSE IF "throws" \in DOMAIN h.invoked[1].outcome
    THEN [message |-> h.invoked[1].outcome.throws]
    ELSE Null

\* C22: an exception the remote callable throws while it executes never leaves
\* the invoker: it becomes the Result {ok:false, error:<message>}, which the
\* dispatcher returns as an ordinary tools/call result with isError true, and
\* not as a JSON-RPC error.
C22_ThrownBecomesResult ==
    \A k \in 1..Len(handlers) :
        LET h == handlers[k] IN
        Thrown(h) # Null =>
            /\ h.pc = "done"
            /\ h.err = Null
            /\ "error" \notin DOMAIN h.response
            /\ h.response =
                   [jsonrpc |-> "2.0", id |-> h.msg.id,
                    result |->
                        [content |-> <<[type |-> "text",
                                        text |-> "{\"ok\":false,\"error\":\""
                                                 \o Thrown(h).message \o "\"}"]>>,
                         isError |-> TRUE]]
            /\ \A n \in PostedFor(h.msg.id) : outbox[n].msg = h.response

C22_Witness ==
    /\ Len(handlers) = 1
    /\ Thrown(handlers[1]) = [message |-> "localStorage is not available"]
    /\ handlers[1].response.result.isError
    /\ PostedFor(1) # {}

(***************************************************************************)
(* The native messaging host (src/unnamed/part_000)                        *)
(*                                                                         *)
(* The host has two listeners.  The 'data' listener takes the client's     *)
(* text, line by line, and writes frames; the 'readable' listener of       *)
(* readMessage takes the extension's bytes, frame by frame, and writes     *)
(* lines.  Each listener is modelled on the stream of its own direction.   *)
(***************************************************************************)
\* the most lines the client writes and the most frames the extension writes
MaxHostLines == 2

MaxHostFrames == 2

\* the characters of codes 32 to 95 and 97 to 126, in the order of their codes
AsciiLow == " !\"#$%&'()*+,-./0123456789:;<=>?@ABCDEFGHIJKLMNOPQRSTUVWXYZ[\\]^_"

AsciiHigh == "abcdefghijklmnopqrstuvwxyz{|}~"

IndexIn(s, c) == CHOOSE k \in 1..Len(s) : Char(s, k) = c

\* the UTF-8 byte of a character of the messages
ByteOf(c) ==
    IF c = "\n" THEN 10
    ELSE IF c = "\t" THEN 9
    ELSE IF \E k \in 1..Len(AsciiLow) : Char(AsciiLow, k) = c
    THEN 31 + IndexIn(AsciiLow, c)
    ELSE 96 + IndexIn(AsciiHigh, c)

\* the character a byte decodes to ("?": a byte the messages do not use)
CharOfByte(b) ==
    IF b = 10 THEN "\n"
    ELSE IF b = 9 THEN "\t"
    ELSE IF b \in 32..95 THEN Char(AsciiLow, b - 31)
    ELSE IF b \in 97..126 THEN Char(AsciiHigh, b - 96)
    ELSE "?"

\* Buffer.from(json, 'utf8')
BufferFrom(json) == [k \in 1..Len(json) |-> ByteOf(Char(json, k))]

\* buf.toString('utf8')
RECURSIVE toString(_)
toString(buf) ==
    IF Len(buf) = 0 THEN "" ELSE CharOfByte(Head(buf)) \o toString(Tail(buf))

\* header.writeUInt32LE(n, 0)
writeUInt32LE(n) ==
    <<n % 256, (n \div 256) % 256, (n \div 65536) % 256, (n \div 16777216) % 256>>

\* buf.readUInt32BE(0): the four bytes read in the other order
readUInt32BE(buf) ==
    buf[4] + 256 * buf[3] + 65536 * buf[2] + 16777216 * buf[1]

\* buf.readUInt32LE(0)
readUInt32LE(buf) ==
    buf[1] + 256 * buf[2] + 65536 * buf[3] + 16777216 * buf[4]

\* sendMessage(msg): the Buffer written to stdout
sendMessage(msg) ==
    LET buf == BufferFrom(JSONstringify(msg)) IN
    [buffer |-> writeUInt32LE(Len(buf)) \o buf]

\* the body of the for loop of the 'data' listener on one line: Null when the
\* line is skipped or its parse is caught, else what sendMessage writes
ForwardOf(line) ==
    IF trim(line) = "" THEN Null
    ELSE IF JSONparse(line) = SyntaxError THEN Null
    ELSE sendMessage(JSONparse(line))

\* a callback that acknowledges the message instead of forwarding it
onExtensionMessage_empty(msg) == [text |-> "{}" \o "\n"]

\* onExtensionMessage(msg): the line written to stdout (pendingRequests is
\* never added to, so its branch is never taken)
onExtensionMessage(msg) == [text |-> JSONstringify(msg) \o "\n"]

\* the try of readMessage on one frame body: Null when JSON.parse throws, or
\* when the callback throws on msg.id of null, else what the callback writes
DeliverOf(msgJson) ==
    IF JSONparse(msgJson) \in {SyntaxError, JNull} THEN Null
    ELSE onExtensionMessage(JSONparse(msgJson))

\* the lines the client may write, without their newline: two messages, one
\* that is not JSON, one that is blank
ClientLines == {"{\"id\":1}", "{ \"id\":2}", "{\"id", " "}

\* what may follow the client's last newline
ClientTails == {"", "{}"}

\* the frame bodies the extension's side may write: two messages and one that
\* is not JSON
FrameBodies == {"{\"id\":1}", "{\"id\":2 }", "{\""}

\* the frame of a body, as Chrome writes it
FrameOf(body) == writeUInt32LE(Len(body)) \o BufferFrom(body)

Frame == [body \in FrameBodies |-> FrameOf(body)]

\* ForwardOf and DeliverOf of each of them
Forwarded == [line \in ClientLines |-> ForwardOf(line)]

\* DeliverOf of the text each body's bytes decode to
Delivered ==
    [bytes \in {BufferFrom(body) : body \in FrameBodies} |-> DeliverOf(toString(bytes))]

\* out after the for loop of the 'data' listener has run over the lines ls
RECURSIVE ForwardLines(_, _)
ForwardLines(ls, out) ==
    IF Len(ls) = 0 THEN out
    ELSE ForwardLines(Tail(ls),
                      IF Forwarded[Head(ls)] = Null THEN out
                      ELSE Append(out, Forwarded[Head(ls)]))

\* a loop that cuts a frame off only once its body has been delivered: a body
\* that is not a message stays at the head of the buffer
RECURSIVE ReadFrames_stuck(_, _)
ReadFrames_stuck(buf, out) ==
    IF Len(buf) < 4 THEN [headerBuf |-> buf, stdout |-> out]
    ELSE LET msgLen == readUInt32LE(buf) IN
         IF Len(buf) < 4 + msgLen THEN [headerBuf |-> buf, stdout |-> out]
         ELSE LET bytes == SubSeq(buf, 5, 4 + msgLen)
                  rest == SubSeq(buf, 5 + msgLen, Len(buf))
              IN  IF Delivered[bytes] = Null THEN [headerBuf |-> buf, stdout |-> out]
                  ELSE ReadFrames_stuck(rest, Append(out, Delivered[bytes]))

\* the inner while loop of readMessage on buf: the frames that are complete
\* are cut off and delivered, the rest stays
RECURSIVE ReadFrames(_, _)
ReadFrames(buf, out) ==
    IF Len(buf) < 4 THEN [headerBuf |-> buf, stdout |-> out]
    ELSE LET msgLen == readUInt32LE(buf) IN
         IF Len(buf) < 4 + msgLen THEN [headerBuf |-> buf, stdout |-> out]
         ELSE LET bytes == SubSeq(buf, 5, 4 + msgLen)
                  rest == SubSeq(buf, 5 + msgLen, Len(buf))
              IN  ReadFrames(rest,
                             IF Delivered[bytes] = Null THEN out
                             ELSE Append(out, Delivered[bytes]))

\* a listener that keeps nothing of an incomplete line
KeepIncomplete_none(ls) == ""

\* inputBuffer = lines.pop(): the incomplete line is kept
KeepIncomplete(ls) == ls[Len(ls)]

\* the 'data' listener on a chunk of the client's text
StdinData ==
    /\ \E n \in 1..(Len(clientStream) - clientRead) :
        LET chunk == SubSeq(clientStream, clientRead + 1, clientRead + n)
            ls == split(inputBuffer \o chunk)
        IN  /\ inputBuffer' = KeepIncomplete(ls)
            /\ stdout' = ForwardLines(SubSeq(ls, 1, Len(ls) - 1), stdout)
            /\ clientRead' = clientRead + n
    /\ UNCHANGED <<clientStream, extStream, extRead, headerBuf>>
    /\ UNCHANGED notHostVars

\* the 'readable' listener of readMessage on a chunk of the extension's bytes
StdinReadable ==
    /\ \E n \in 1..(Len(extStream) - extRead) :
        LET chunk == SubSeq(extStream, extRead + 1, extRead + n)
            read == ReadFrames(headerBuf \o chunk, stdout)
        IN  /\ headerBuf' = read.headerBuf
            /\ stdout' = read.stdout
            /\ extRead' = extRead + n
    /\ UNCHANGED <<clientStream, clientRead, extStream, inputBuffer>>
    /\ UNCHANGED notHostVars

\* the concatenation of the strings of ls, each followed by a newline
RECURSIVE LinesText(_)
LinesText(ls) ==
    IF Len(ls) = 0 THEN "" ELSE Head(ls) \o "\n" \o LinesText(Tail(ls))

\* the concatenation of the frames of the bodies bs
RECURSIVE FramesBytes(_)
FramesBytes(bs) ==
    IF Len(bs) = 0 THEN <<>> ELSE Frame[Head(bs)] \o FramesBytes(Tail(bs))

\* the texts the client may write and the bytes the extension's side may write
ClientStreams ==
    {LinesText(ls) \o tail :
        ls \in UNION {[1..k -> ClientLines] : k \in 0..MaxHostLines},
        tail \in ClientTails}

ExtStreams ==
    {FramesBytes(bs) : bs \in UNION {[1..k -> FrameBodies] : k \in 0..MaxHostFrames}}

\* the host has started; the peers have their streams to write
InitHost ==
    /\ clientStream \in ClientStreams
    /\ extStream \in ExtStreams
    /\ clientRead = 0
    /\ extRead = 0
    /\ inputBuffer = ""
    /\ headerBuf = <<>>
    /\ stdout = <<>>
    /\ ParseIdle
    /\ SchemaIdle
    /\ BridgeIdle
    /\ ClientIdle

NextHost == StdinData \/ StdinReadable

SpecHost == InitHost /\ [][NextHost]_vars

(***************************************************************************)
(* Claims about the native messaging host                                  *)
(***************************************************************************)

\* the lines of each of the client's texts up to each position: the last one
\* has no newline yet
LinesUpTo ==
    [text \in ClientStreams |->
        [p \in 0..Len(text) |-> split(SubSeq(text, 1, p))]]

\* the lines of the client's text that have been given to the host whole, and
\* what has been given of the line after them
CompleteLines ==
    LET ls == LinesUpTo[clientStream][clientRead] IN SubSeq(ls, 1, Len(ls) - 1)

PartialLine ==
    LET ls == LinesUpTo[clientStream][clientRead] IN ls[Len(ls)]

\* the frame each line of the client is to be forwarded as, byte by byte
\* (<<>>: the line is not a message)
ExpectedFrame ==
    [line \in ClientLines |->
        CASE line = "{\"id\":1}" -> <<8, 0, 0, 0, 123, 34, 105, 100, 34, 58, 49, 125>>
          [] line = "{ \"id\":2}" -> <<8, 0, 0, 0, 123, 34, 105, 100, 34, 58, 50, 125>>
          [] OTHER -> <<>>]

\* the frames written to stdout, and the lines written to it
FramesWritten ==
    LET isFrame(w) == "buffer" \in DOMAIN w
        frames == SelectSeq(stdout, isFrame)
    IN  [k \in 1..Len(frames) |-> frames[k].buffer]

LinesWritten ==
    LET isLine(w) == "text" \in DOMAIN w
        texts == SelectSeq(stdout, isLine)
    IN  [k \in 1..Len(texts) |-> texts[k].text]

\* the frames of the lines ls that are messages
RECURSIVE ExpectedFrames(_)
ExpectedFrames(ls) ==
    IF Len(ls) = 0 THEN <<>>
    ELSE (IF ExpectedFrame[Head(ls)] = <<>> THEN <<>> ELSE <<ExpectedFrame[Head(ls)]>>)
         \o ExpectedFrames(Tail(ls))

LineValue == [line \in ClientLines |-> JSONparse(line)]

BodyValue == [body \in FrameBodies |-> JSONparse(body)]

\* the JSON value an extension reads in a frame: that of its bytes after the
\* four of the length, for each frame the host may write
FrameValue ==
    [f \in {sendMessage(LineValue[line]).buffer :
                line \in {l \in ClientLines : LineValue[l] # SyntaxError}} |->
        JSONparse(toString(SubSeq(f, 5, Len(f))))]

\* the JSON value a client reads in a line: that of its text before the
\* newline that ends it (SyntaxError when a newline is elsewhere or nowhere),
\* for each line the host may write
WrittenLineValue ==
    [t \in {onExtensionMessage(BodyValue[body]).text :
                body \in {b \in FrameBodies : BodyValue[b] # SyntaxError}} |->
        IF /\ Len(t) > 0
           /\ Char(t, Len(t)) = "\n"
           /\ \A k \in 1..(Len(t) - 1) : Char(t, k) # "\n"
        THEN JSONparse(SubSeq(t, 1, Len(t) - 1))
        ELSE SyntaxError]

\* the bodies whose frames make up each of the extension's byte streams, and
\* those of them whose frame ends within the first p bytes
BodiesOf ==
    [bytes \in ExtStreams |->
        CHOOSE bs \in UNION {[1..k -> FrameBodies] : k \in 0..MaxHostFrames} :
            FramesBytes(bs) = bytes]

BodiesUpTo ==
    [bytes \in ExtStreams |->
        [p \in 0..Len(bytes) |->
            LET bs == BodiesOf[bytes]
                whole == {j \in 0..Len(bs) : Len(FramesBytes(SubSeq(bs, 1, j))) <= p}
                last == CHOOSE j \in whole : \A j2 \in whole : j2 <= j
            IN  SubSeq(bs, 1, last)]]

\* the bodies of the frames that have been given to the host whole, and the
\* bytes that have been given of the frame after them
CompleteBodies == BodiesUpTo[extStream][extRead]

PartialFrame ==
    SubSeq(extStream, Len(FramesBytes(CompleteBodies)) + 1, extRead)

\* the messages among the lines and the bodies given whole
MessageLines ==
    LET isMessage(line) == LineValue[line] # SyntaxError
    IN  SelectSeq(CompleteLines, isMessage)

MessageBodies ==
    LET isMessage(body) == BodyValue[body] # SyntaxError
    IN  SelectSeq(CompleteBodies, isMessage)

ExpectedLine ==
    [body \in FrameBodies |->
        CASE body = "{\"id\":1}" -> "{\"id\":1}\n"
          [] body = "{\"id\":2 }" -> "{\"id\":2}\n"
          [] OTHER -> ""]

\* the positions of the lines, and of the frames, given whole that are
\* messages and come after one that is not JSON
LinesAfterBad ==
    {k \in 1..Len(CompleteLines) :
        /\ ExpectedFrame[CompleteLines[k]] # <<>>
        /\ \E j \in 1..(k - 1) : CompleteLines[j] = "{\"id"}

FramesAfterBad ==
    {k \in 1..Len(CompleteBodies) :
        /\ ExpectedLine[CompleteBodies[k]] # ""
        /\ \E j \in 1..(k - 1) : CompleteBodies[j] = "{\""}

RECURSIVE ExpectedLines(_)
ExpectedLines(bs) ==
    IF Len(bs) = 0 THEN <<>>
    ELSE (IF ExpectedLine[Head(bs)] = "" THEN <<>> ELSE <<ExpectedLine[Head(bs)]>>)
         \o ExpectedLines(Tail(bs))

\* what readMessage makes of each frame sendMessage writes, read in one piece
ReadBack ==
    [line \in {l \in ClientLines : LineValue[l] # SyntaxError} |->
        LET f == sendMessage(LineValue[line]).buffer
            msgLen == readUInt32LE(f)
        IN  IF Len(f) = 4 + msgLen
            THEN JSONparse(toString(SubSeq(f, 5, 4 + msgLen)))
            ELSE SyntaxError]

IssuedIds == 1..(nextId - 1)

\* C32: the ids of one client are strictly increasing and never used again:
\* every key of pendingRequests is an id given out before, smaller than
\* nextId, and each id given out has its one promise; a step inserts at most
\* one key, the nextId of before the step, which is larger than every id
\* given out before and so is none that was removed, and nextId never
\* decreases.
C32_IdsIncreaseNeverReused ==
    /\ [](/\ pendingRequests \subseteq IssuedIds
          /\ Len(promises) = nextId - 1)
    /\ [][/\ nextId' >= nextId
          /\ (pendingRequests' \ pendingRequests) \subseteq {nextId}
          /\ (pendingRequests' \ pendingRequests) # {} =>
                /\ nextId' = nextId + 1
                /\ nextId \notin IssuedIds
                /\ \A id \in IssuedIds : id < nextId]_vars

\* three ids have been given out: the first was removed by its response, the
\* second by its timeout, the third is pending
C32_Witness ==
    /\ nextId = 4
    /\ pendingRequests = {3}
    /\ promises[1].state = "resolved"
    /\ promises[2].state = "rejected"
    /\ promises[2].by = Null
    /\ 2 \notin timers

\* the client with its timers running: the callback of a setTimeout that has
\* been set is called in the end
SpecClientTimers ==
    /\ InitClient
    /\ [][NextClient]_vars
    /\ \A id \in 1..MaxClientRequests : WF_vars(Timeout(id))

\* request id has been made
Requested(id) == id <= Len(promises)

\* C33: every request is settled exactly once: its promise is pending exactly
\* as long as its id is a key of pendingRequests, it leaves that state only
\* by a response line carrying its id or by its timer, and once it has left
\* it nothing changes it, neither the timer after a response nor a response
\* after the timer; and every request made is settled in the end, responses
\* or not.
C33_SettledExactlyOnce ==
    /\ [](\A id \in 1..Len(promises) :
            (promises[id].state = "pending") <=> (id \in pendingRequests))
    /\ [][\A id \in 1..Len(promises) :
            /\ promises[id].state # "pending" => promises'[id] = promises[id]
            /\ (promises[id].state = "pending" /\ promises'[id].state # "pending") =>
                  \/ /\ promises'[id].by = lastLine'
                     /\ lastLine' # Null
                     /\ LineId(lastLine'.line) = id
                  \/ /\ promises'[id].by = Null
                     /\ id \in timers
                     /\ id \notin timers']_vars
    /\ \A id \in 1..MaxClientRequests :
            Requested(id) ~> (Requested(id) /\ promises[id].state # "pending")

\* the first request was rejected by its timer and its response came later;
\* the second was resolved by its response and its timer fired later; the
\* third got no response and was rejected by its timer
C33_Witness ==
    /\ Len(promises) = 3
    /\ timers = {}
    /\ pendingRequests = {}
    /\ promises[1].state = "rejected"
    /\ promises[1].by = Null
    /\ promises[2].state = "resolved"
    /\ promises[2].by = [line |-> ResultLine(JNumber(2), ResultOk)]
    /\ promises[3].state = "rejected"
    /\ promises[3].by = Null
    /\ lastLine = [line |-> ResultLine(JNumber(1), ResultOk)]

\* the origins a tab can have
Origins == {TabOrigin[t] : t \in Tabs}

\* the handlers whose fetch for origin delivered a manifest and that have
\* completed since the last INVALIDATE_CACHE
StoredSinceClear(origin) ==
    {k \in 1..Len(handlers) :
        /\ handlers[k].pc = "done"
        /\ handlers[k].origin = origin
        /\ FetchedText(handlers[k])
        /\ handlers[k].atClear # "done"}

\* when handler k completed: the place of its envelope among those posted
CompletedAt(k) == CHOOSE n \in 1..Len(outbox) : outbox[n].msg.id = handlers[k].msg.id

\* the one of the handlers ks that completed last
CompletedLast(ks) ==
    CHOOSE k \in ks : \A other \in ks : CompletedAt(other) <= CompletedAt(k)

\* handlers k1 and k2 missed the cache for the same origin and fetched at the
\* same time
ConcurrentMisses(k1, k2) ==
    /\ k1 # k2
    /\ handlers[k1].pc \in {"fetch", "text"}
    /\ handlers[k2].pc \in {"fetch", "text"}
    /\ handlers[k1].origin = handlers[k2].origin

\* C34: requests for one origin that miss the cache at the same time all
\* fetch, and all write: once they have completed the cache has, for that
\* origin, the one contract parsed from the manifest of the fetch that
\* completed last, and each request has returned the tools of the contract
\* parsed from its own fetch.
C34_ConcurrentMissesLastWriteWins ==
    /\ \A origin \in Origins :
        LET stored == StoredSinceClear(origin) IN
        IF stored = {} THEN origin \notin DOMAIN contractCache
        ELSE /\ origin \in DOMAIN contractCache
             /\ contractCache[origin] =
                    ParsedManifest[handlers[CompletedLast(stored)].res.body]
    /\ \A k \in 1..Len(handlers) :
        (handlers[k].pc = "done" /\ FetchedText(handlers[k])) =>
            handlers[k].response.result = ToolsOf(ParsedManifest[handlers[k].res.body])
    /\ \A k1, k2 \in 1..Len(handlers) :
        ConcurrentMisses(k1, k2) =>
            /\ handlers[k1].url = handlers[k1].origin \o "/agent.md"
            /\ handlers[k2].url = handlers[k1].url

\* two requests missed the cache for https://todo.example at the same time and
\* fetched different manifests; the second completed first, the first last,
\* and the cache has the contract of the first
C34_Witness ==
    /\ Len(handlers) >= 2
    /\ handlers[1].atClear = "after"
    /\ handlers[2].atClear = "after"
    /\ StoredSinceClear("https://todo.example") = {1, 2}
    /\ handlers[1].res.body = ManifestV1
    /\ handlers[2].res.body = ManifestV2
    /\ CompletedAt(2) < CompletedAt(1)
    /\ contractCache["https://todo.example"] = ParsedManifest[ManifestV1]
    /\ handlers[2].response.result = ToolsOf(ParsedManifest[ManifestV2])
    /\ ParsedManifest[ManifestV1] # ParsedManifest[ManifestV2]

\* a step in which handler k, having missed the cache and fetched a manifest,
\* stores the contract parsed from it under the origin it asked for
StoresOnMiss(k) ==
    /\ handlers[k].pc = "text"
    /\ handlers'[k].pc = "done"
    /\ handlers[k].url = handlers[k].origin \o "/agent.md"
    /\ FetchedText(handlers[k])
    /\ DOMAIN contractCache' = DOMAIN contractCache \cup {handlers[k].origin}
    /\ contractCache'[handlers[k].origin] = ParsedManifest[handlers[k].res.body]
    /\ \A origin \in DOMAIN contractCache \ {handlers[k].origin} :
           contractCache'[origin] = contractCache[origin]

\* handler k is about to look at the cache and will find its origin there
AboutToHit(k) ==
    /\ handlers[k].pc = "list_query"
    /\ HasUrl(activeTab)
    /\ TabOrigin[activeTab] \in DOMAIN contractCache

\* C35: the cache changes in two ways only: a handler that missed and
\* fetched a manifest adds the entry of the origin it asked for, and an
\* invalidation removes every entry; no other step of the bridge, whatever
\* the method, changes it. So every entry is a contract, never null, and a
\* handler that finds its origin in the cache answers from it without a fetch.
C35_CacheFrame ==
    /\ [](\A origin \in DOMAIN contractCache :
            /\ origin \in Origins
            /\ contractCache[origin] # Null
            /\ IsContract(contractCache[origin]))
    /\ [][contractCache' # contractCache =>
            \/ contractCache' = EmptyObject
            \/ \E k \in 1..Len(handlers) : StoresOnMiss(k)]_vars
    /\ [][\A k \in 1..Len(handlers) :
            (AboutToHit(k) /\ handlers'[k] # handlers[k]) =>
                /\ handlers'[k].pc = "done"
                /\ handlers'[k].url = ""
                /\ handlers'[k].res = Null
                /\ handlers'[k].response.result = ToolsOf(contractCache[TabOrigin[activeTab]])
                /\ UNCHANGED contractCache]_vars

\* the first request missed, fetched and stored; the second found the entry
\* and answered from it without a fetch
C35_Witness ==
    /\ Len(handlers) = 2
    /\ handlers[1].pc = "done"
    /\ FetchedText(handlers[1])
    /\ handlers[2].pc = "done"
    /\ handlers[2].msg.method = "tools/list"
    /\ handlers[2].origin = handlers[1].origin
    /\ handlers[2].url = ""
    /\ DOMAIN contractCache = {handlers[1].origin}
    /\ handlers[2].response.result = ToolsOf(contractCache[handlers[1].origin])

\* the fetch of handler k was in flight when the cache was last cleared
InFlightAtClear(k) == handlers[k].atClear = "inflight"

\* C36: once an INVALIDATE_CACHE has been processed, no contract of a
\* manifest whose fetch started before it is stored in the cache (and so none
\* is served from it), also when the fetch was in flight at the invalidation:
\* the entry of an origin is never the one written by a handler whose fetch
\* was in flight when the cache was last cleared.
C36_NoStaleStoreAfterInvalidate ==
    \A origin \in Origins :
        StoredSinceClear(origin) # {} =>
            ~InFlightAtClear(CompletedLast(StoredSinceClear(origin)))

\* the native port of the first connectNativeHost() is still the current one:
\* no disconnect has been seen
PortKept == nativePort = 1 /\ connects = 1 /\ reconnectTimers = 0

\* envelope is a result or an error for the request id, and not both
OneAnswer(envelope, id) ==
    /\ envelope.jsonrpc = "2.0"
    /\ envelope.id = id
    /\ ("result" \in DOMAIN envelope) # ("error" \in DOMAIN envelope)

\* C37: while the native port stays connected, each request the dispatcher
\* handles gets exactly one envelope with its id, a result or an error and
\* not both: none before its handler ends, one from then on, and the port
\* gets no envelope of any other id; in no case does a request get more
\* than one envelope, however the handlers interleave.
C37_OneEnvelopePerRequest ==
    /\ \A k \in 1..Len(handlers) :
        Cardinality(PostedFor(handlers[k].msg.id)) <= 1
    /\ PortKept =>
        /\ \A k \in 1..Len(handlers) :
            LET posted == PostedFor(handlers[k].msg.id) IN
            IF handlers[k].pc = "done"
            THEN /\ Cardinality(posted) = 1
                 /\ \A n \in posted : OneAnswer(outbox[n].msg, handlers[k].msg.id)
            ELSE posted = {}
        /\ \A n \in 1..Len(outbox) :
            \E k \in 1..Len(handlers) : outbox[n].msg.id = handlers[k].msg.id

\* two requests were handled at the same time on the first port: the second
\* ended first, with an error, and the first after it, with a result
C37_Witness ==
    /\ PortKept
    /\ Len(handlers) = 2
    /\ Len(outbox) = 2
    /\ outbox[1].msg.id = handlers[2].msg.id
    /\ "error" \in DOMAIN outbox[1].msg
    /\ outbox[2].msg.id = handlers[1].msg.id
    /\ "result" \in DOMAIN outbox[2].msg
    /\ handlers[1].msg.method = "tools/list"
    /\ handlers[2].msg.method = "tools/call"

\* C38: the bridge has at most one live native port and at most one
\* reconnect timer, and never both: a timer is set only in the step in which
\* the current port disconnects and nativePort becomes null, one timer per
\* disconnect, and a port is obtained only when a timer fires while there is
\* no port, so that no port is ever replaced while it is live.
C38_OnePortOrOneTimer ==
    /\ [](/\ reconnectTimers \in {0, 1}
          /\ nativePort \in {NoPort} \cup (1..connects)
          /\ nativePort # NoPort => reconnectTimers = 0)
    /\ [][/\ reconnectTimers' > reconnectTimers =>
                /\ nativePort # NoPort
                /\ nativePort' = NoPort
                /\ reconnectTimers' = reconnectTimers + 1
                /\ connects' = connects
          /\ nativePort' # nativePort =>
                \/ nativePort' = NoPort
                \/ /\ nativePort = NoPort
                   /\ reconnectTimers = 1
                   /\ reconnectTimers' = 0
                   /\ nativePort' = connects'
                   /\ connects' = connects + 1]_vars

\* the first port disconnected, the timer fired and the second call of
\* connectNativeHost obtained the second port
C38_Witness ==
    /\ connects = 2
    /\ nativePort = 2
    /\ reconnectTimers = 0

=============================================================================
